---------------------------- MODULE Spec2Model ----------------------------
(***************************************************************************)
(* A model of the Jaguar GPU/DSP interpreter core                          *)
(* (src/src/devices/cpu/jaguar/jaguar.cpp): the two register banks and     *)
(* their switcher, the flags word, the interrupt controller, the           *)
(* control-register port, the run loop and the opcode handlers.            *)
(*                                                                         *)
(* Representation of machine words.  TLC's integers are 32-bit signed, so  *)
(* a u32 value v is represented by the integer of -2^31 .. 2^31-1 that is  *)
(* congruent to v modulo 2^32 (its two's complement reading): 0xFFFFFFFF   *)
(* is -1, 0x80000000 is -2^31.  All arithmetic on u32 values goes through  *)
(* Add32/Sub32/And32/... below, which wrap modulo 2^32 as the C++ does.    *)
(***************************************************************************)
EXTENDS Integers, Sequences, FiniteSets, TLC

(***************************************************************************)
(* u32 arithmetic                                                          *)
(***************************************************************************)
Lo16(x) == x % 65536

Hi16(x) == (x \div 65536) % 65536

Join16(hi, lo) == (IF hi >= 32768 THEN hi - 65536 ELSE hi) * 65536 + lo

Add32(a, b) ==
    LET lo == Lo16(a) + Lo16(b)
        hi == Hi16(a) + Hi16(b) + (lo \div 65536)
    IN  Join16(hi % 65536, lo % 65536)

Not32(a) == (-1) - a

Sub32(a, b) == Add32(a, Add32(Not32(b), 1))

RECURSIVE AndBits(_, _, _)
AndBits(a, b, n) ==
    IF n = 0 \/ a = 0 \/ b = 0 THEN 0
    ELSE ((a % 2) * (b % 2)) + 2 * AndBits(a \div 2, b \div 2, n - 1)

\* a & b for bytes, tabulated
And8 == [a \in 0 .. 255 |-> [b \in 0 .. 255 |-> AndBits(a, b, 8)]]

And16(a, b) == And8[a \div 256][b \div 256] * 256 + And8[a % 256][b % 256]

And32(a, b) == Join16(And16(Hi16(a), Hi16(b)), And16(Lo16(a), Lo16(b)))

\* a | b = a + b - (a & b), half by half
Or32(a, b) ==
    Join16(Hi16(a) + Hi16(b) - And16(Hi16(a), Hi16(b)),
           Lo16(a) + Lo16(b) - And16(Lo16(a), Lo16(b)))

\* x & ~m = x - (x & m), half by half
AndNot32(x, m) ==
    Join16(Hi16(x) - And16(Hi16(x), Hi16(m)),
           Lo16(x) - And16(Lo16(x), Lo16(m)))

\* (x & m) != 0
Test(x, m) == And32(x, m) # 0

\* x >> n for a u32 x and 0 < n < 32 (logical shift)
Shr32(x, n) ==
    IF n >= 16 THEN Hi16(x) \div (2 ^ (n - 16))
    ELSE Join16(Hi16(x) \div (2 ^ n),
                ((Hi16(x) % (2 ^ n)) * (2 ^ (16 - n))) + (Lo16(x) \div (2 ^ n)))

\* the 24-bit address the program space decodes (m_program_config)
Addr24(a) == (Hi16(a) % 256) * 65536 + Lo16(a)

(***************************************************************************)
(* Constants of the core                                                   *)
(***************************************************************************)
ZFLAG == \h00001

CFLAG == \h00002

NFLAG == \h00004

IFLAG == \h00008

EINT0FLAG == \h00010

EINT1FLAG == \h00020

EINT2FLAG == \h00040

EINT3FLAG == \h00080

EINT4FLAG == \h00100

EINT04FLAGS == \h001F0

CINT0FLAG == \h00200

CINT1FLAG == \h00400

CINT2FLAG == \h00800

CINT3FLAG == \h01000

CINT4FLAG == \h02000

CINT04FLAGS == \h03E00

RPAGEFLAG == \h04000

DMAFLAG == \h08000

EINT5FLAG == \h10000

CINT5FLAG == \h20000

\* the line states of execute_set_input
CLEAR_LINE == "CLEAR_LINE"

ASSERT_LINE == "ASSERT_LINE"

\* The slots of m_ctrl.  The GPU and the DSP name the same array; the DSP's
\* D_MOD is kept in a slot of its own, which the GPU never touches.
G_FLAGS == "FLAGS"

G_MTXC == "MTXC"

G_MTXA == "MTXA"

G_END == "END"

G_PC == "PC"

G_CTRL == "CTRL"

G_HIDATA == "HIDATA"

D_MOD == "MOD"

G_DIVCTRL == "DIVCTRL"

D_REMAINDER == "REMAINDER"

CtrlRegs ==
    {G_FLAGS, G_MTXC, G_MTXA, G_END, G_PC, G_CTRL, G_HIDATA, D_MOD, G_DIVCTRL,
     D_REMAINDER}

\* the interrupt vector base of check_irqs
VectorBase(isdsp) == IF isdsp THEN \hF1B000 ELSE \hF03000

\* m_internal_ram_start / m_internal_ram_end
InternalRamStart(isdsp) == IF isdsp THEN \hF1B000 ELSE \hF03000

InternalRamEnd(isdsp) == IF isdsp THEN \hF1CFFF ELSE \hF03FFF

\* The addresses at which the driver maps ctrl_w into the core's own program
\* space ("GPU write register @ F021%02X", "DSP write register @ F1A1%02X"),
\* register n at byte offset 4*n.
CtrlPortBase(isdsp) == IF isdsp THEN \hF1A100 ELSE \hF02100

CtrlPortOrder(isdsp) ==
    <<G_FLAGS, G_MTXC, G_MTXA, G_END, G_PC, G_CTRL,
      IF isdsp THEN D_MOD ELSE G_HIDATA, G_DIVCTRL>>

(***************************************************************************)
(* State                                                                   *)
(***************************************************************************)
VARIABLES
    m_isdsp,                \* the variant the instance was constructed as
    m_r, m_a,               \* the two register arrays; m_r is what opcodes see
    m_b0, m_b1,             \* which array holds bank 0 / bank 1: "m_r" or "m_a"
    m_ctrl,                 \* the control registers
    m_icount,               \* remaining cycle budget
    m_bankswitch_icount,    \* the bank-swap sentinel
    m_ppc, m_accum,
    mem,                    \* the memory cells written so far (16-bit cells)
    running,                \* TRUE inside execute_run's do-while loop
    irqs,                   \* history: interrupts dispatched since power-on
    run,                    \* history: bookkeeping of the current/last run
    op,                     \* history: the last operation and what it did
    ops,                    \* history: operations the host has called
    host,                   \* history: calls the last operation made to the host
    focus,                  \* the interrupt lines the host drives in this run
    instances,              \* per instance: constructed, m_tables_referenced, table_refcount
    tables                  \* mirror_table and condition_table, and how often they were built

vars ==
    <<m_isdsp, m_r, m_a, m_b0, m_b1, m_ctrl, m_icount, m_bankswitch_icount,
      m_ppc, m_accum, mem, running, irqs, run, op, ops, host, focus,
      instances, tables>>

Regs == 0 .. 31

\* The core's state as one value, the form the handlers below transform.
\* swaps/taken/insns/chain count, within one operation, the bank swaps, the taken
\* branches and the opcode handlers executed; cpu_interrupt, halt and yields
\* record its calls of m_cpu_interrupt(ASSERT_LINE), the states it gave
\* set_input_line(INPUT_LINE_HALT, .) and its calls of yield(); access
\* records the data accesses it made to the program space, each as
\* <<"read" or "write", width in bytes, address>>; observed records, for
\* every call it made out of the core, the call and the control registers
\* and bank roles as they were at that moment; wild is what the machine
\* makes of an operation the language leaves undefined (a read past the end
\* of a register array, a shift by the full width); trail holds the taken
\* branches whose handlers are waiting for the instruction they folded to
\* return, each as <<PC at its entry, opcode word>>, and diverged tells that
\* one of them was entered again with the same PC and word, from where the
\* handlers call each other without end.
Cur ==
    [m_isdsp |-> m_isdsp, m_r |-> m_r, m_a |-> m_a, m_b0 |-> m_b0,
     m_b1 |-> m_b1, m_ctrl |-> m_ctrl, m_icount |-> m_icount,
     m_bankswitch_icount |-> m_bankswitch_icount, m_ppc |-> m_ppc,
     m_accum |-> m_accum, mem |-> mem, irqs |-> irqs,
     swaps |-> 0, taken |-> 0, insns |-> 0, chain |-> 0,
     cpu_interrupt |-> 0, halt |-> <<>>, yields |-> 0, access |-> <<>>,
     observed |-> <<>>, wild |-> 0, trail |-> {}, diverged |-> FALSE]

\* the host before any call is made to it
NoCalls ==
    [cpu_interrupt |-> 0, halt |-> <<>>, yields |-> 0, access |-> <<>>,
     observed |-> <<>>]

PC(s) == s.m_ctrl[G_PC]

FLAGS(s) == s.m_ctrl[G_FLAGS]

SetCtrl(s, reg, v) == [s EXCEPT !.m_ctrl[reg] = v]

\* what a call made out of the core finds: the control registers and the
\* bank roles at that moment
Seen(s, call) == [call |-> call, m_ctrl |-> s.m_ctrl, m_b0 |-> s.m_b0]

(***************************************************************************)
(* Register bank switcher                                                  *)
(***************************************************************************)
\* the swap of update_register_banks, for the bank picked
swap_banks(s, bank) ==
    \* do we need to swap?
    IF (bank = 0 /\ s.m_b0 # "m_r") \/ (bank # 0 /\ s.m_b1 # "m_r")
    THEN \* remember the icount of the instruction after we swap, exchange
         \* the contents, swap the bank pointers
         [s EXCEPT !.m_bankswitch_icount = s.m_icount - 1,
                   !.m_r = s.m_a,
                   !.m_a = s.m_r,
                   !.m_b0 = IF bank = 0 THEN "m_r" ELSE "m_a",
                   !.m_b1 = IF bank = 0 THEN "m_a" ELSE "m_r",
                   !.swaps = @ + 1]
    ELSE s

\* the bank picked from the page bit alone
update_register_banks_by_page(s) == swap_banks(s, And32(FLAGS(s), RPAGEFLAG))

update_register_banks(s) ==
    \* pick the bank
    swap_banks(s, IF Test(FLAGS(s), IFLAG) THEN 0 ELSE And32(FLAGS(s), RPAGEFLAG))

(***************************************************************************)
(* Memory.  The program space is an array of 16-bit cells at the even      *)
(* 24-bit addresses, big-endian.  InitMem is what it holds at power-on     *)
(* (the loaded program, zero elsewhere); mem holds the cells written       *)
(* since.  A long-word store that falls on the core's own control-register *)
(* port is a call of ctrl_w.                                               *)
(***************************************************************************)
NOP == 57 * 1024

\* opcode word: 6-bit operation, two 5-bit fields
Op(code, f1, f2) == code * 1024 + f1 * 32 + f2

\* The program image, at the interrupt vector base (the start of internal
\* RAM), one 16-bit word per entry.  r1 := flags port; a'r1 := r1;
\* r2 := RPAGEFLAG; store r2,(r1); store r3,(r1); r4 := 3;
\* imultn/imacn/resmac; jr if Z; r7 := start; jr if not Z; r5 := 5;
\* jump (r7) back to the start.  Every branch has a nop in its delay slot.
Image(isdsp) ==
    << Op(38, 0, 1), Lo16(CtrlPortBase(isdsp)), Hi16(CtrlPortBase(isdsp)),
       Op(36, 1, 1),
       Op(38, 0, 2), RPAGEFLAG, 0,
       Op(47, 1, 2),
       Op(47, 1, 3),
       Op(35, 3, 4),
       Op(18, 4, 5), Op(20, 4, 5), Op(19, 0, 6),
       Op(53, 2, 2), NOP, NOP,
       Op(38, 0, 7), Lo16(VectorBase(isdsp)), Hi16(VectorBase(isdsp)),
       Op(53, 1, 1), NOP,
       Op(35, 5, 5),
       Op(52, 7, 0), NOP >>

ImageLen == Len(Image(FALSE))

InImage(isdsp, a) ==
    a >= VectorBase(isdsp) /\ a < VectorBase(isdsp) + 2 * ImageLen

InitMem(isdsp, a) ==
    IF InImage(isdsp, a) THEN Image(isdsp)[((a - VectorBase(isdsp)) \div 2) + 1]
    ELSE 0

ReadCell(s, a) == IF a \in DOMAIN s.mem THEN s.mem[a] ELSE InitMem(s.m_isdsp, a)

\* the 16-bit cell an access at address a falls in
Cell(a) == Addr24(a) - (Addr24(a) % 2)

WriteCell(m, a, v) == [x \in (DOMAIN m) \cup {a} |-> IF x = a THEN v ELSE m[x]]

ROPCODE(s, pc) == ReadCell(s, Cell(pc))

READWORD(s, a) == ReadCell(s, Cell(a))

READLONG(s, a) == Join16(ReadCell(s, Cell(a)), ReadCell(s, Cell(Add32(a, 2))))

InCtrlPort(isdsp, a) ==
    Addr24(a) >= CtrlPortBase(isdsp)
    /\ Addr24(a) < CtrlPortBase(isdsp) + 4 * Len(CtrlPortOrder(isdsp))

CtrlPortReg(isdsp, a) ==
    CtrlPortOrder(isdsp)[((Addr24(a) - CtrlPortBase(isdsp)) \div 4) + 1]

\* a long-word store can land on the control-register port, whose write
\* handler checks the interrupts, whose dispatch pushes with a long-word store
RECURSIVE WRITELONG(_, _, _)
RECURSIVE ctrl_w(_, _, _, _)
RECURSIVE check_irqs(_)

(***************************************************************************)
(* IRQ handling                                                            *)
(***************************************************************************)
\* the active interrupt bits of check_irqs, masked by the interrupt mask
irq_bits(s) ==
    And32(\* get the active interrupt bits
          Or32(And32(Shr32(s.m_ctrl[G_CTRL], 6), \h1f),
               And32(Shr32(s.m_ctrl[G_CTRL], 10), \h20)),
          \* get the interrupt mask
          Or32(And32(Shr32(FLAGS(s), 4), \h1f),
               And32(Shr32(FLAGS(s), 11), \h20)))

\* determine which interrupt
irq_which(bits) ==
    IF Test(bits, \h20) THEN 5
    ELSE IF Test(bits, \h10) THEN 4
    ELSE IF Test(bits, \h08) THEN 3
    ELSE IF Test(bits, \h04) THEN 2
    ELSE IF Test(bits, \h02) THEN 1
    ELSE 0

\* push the PC-2 on the stack of the bank now visible
irq_push(s, pc) ==
    WRITELONG([s EXCEPT !.m_r[31] = Sub32(@, 4), !.irqs = @ + 1],
              Sub32(s.m_r[31], 4), Sub32(pc, 2))

\* check_irqs from the test of the bits on
irq_dispatch(s, bits) ==
    \* bail if nothing is available
    IF bits = 0 THEN s
    ELSE SetCtrl(irq_push(\* set the interrupt flag
                          update_register_banks(
                              SetCtrl(s, G_FLAGS, Or32(FLAGS(s), IFLAG))),
                          PC(s)),
                 \* dispatch
                 G_PC, Add32(VectorBase(s.m_isdsp), irq_which(bits) * 16))

\* check_irqs past its first test
check_irqs_pending(s) == irq_dispatch(s, irq_bits(s))

\* the check made whatever the interrupt-mask flag
check_irqs_unmasked(s) == check_irqs_pending(s)

check_irqs(s) ==
    \* if the IMASK is set, bail
    IF Test(FLAGS(s), IFLAG) THEN s ELSE check_irqs_pending(s)

\* the line recorded without the interrupt check
execute_set_input_unchecked(s, irqline, state) ==
    LET mask == IF irqline < 5 THEN \h40 * (2 ^ irqline) ELSE \h10000
    IN  IF state # CLEAR_LINE
        THEN [s EXCEPT !.m_ctrl[G_CTRL] = Or32(@, mask)]
        ELSE [s EXCEPT !.m_ctrl[G_CTRL] = AndNot32(@, mask)]

execute_set_input(s, irqline, state) ==
    LET mask == IF irqline < 5 THEN \h40 * (2 ^ irqline) ELSE \h10000
        s1 == SetCtrl(s, G_CTRL, AndNot32(s.m_ctrl[G_CTRL], mask))
    IN  IF state # CLEAR_LINE
        THEN check_irqs(SetCtrl(s1, G_CTRL, Or32(s1.m_ctrl[G_CTRL], mask)))
        ELSE s1

(***************************************************************************)
(* Control-register port                                                   *)
(***************************************************************************)
COMBINE_DATA(oldval, data, mem_mask) ==
    Or32(AndNot32(oldval, mem_mask), And32(data, mem_mask))

\* the control/status register keeping bits 1 and 2 as written
ctrl_w_CTRL_latched(s, oldval, newval) ==
    [s EXCEPT
        !.m_ctrl[G_CTRL] = IF Test(newval, \h04) THEN Or32(newval, \h40)
                           ELSE newval,
        !.halt = IF Test(oldval, \h01) # Test(newval, \h01)
                 THEN Append(@, IF Test(newval, \h01)
                                THEN CLEAR_LINE ELSE ASSERT_LINE)
                 ELSE @,
        !.yields = IF Test(oldval, \h01) # Test(newval, \h01) THEN @ + 1 ELSE @,
        !.cpu_interrupt = IF Test(newval, \h02) THEN @ + 1 ELSE @]

\* the halt line notified on every control/status write
ctrl_w_CTRL_notifying(s, oldval, newval) ==
    [s EXCEPT
        !.m_ctrl[G_CTRL] =
            IF Test(newval, \h04)
            THEN AndNot32(Or32(AndNot32(newval, \h02), \h40), \h04)
            ELSE AndNot32(newval, \h02),
        !.halt = Append(@, IF Test(newval, \h01)
                           THEN CLEAR_LINE ELSE ASSERT_LINE),
        !.yields = @ + 1,
        !.cpu_interrupt = IF Test(newval, \h02) THEN @ + 1 ELSE @]

\* G_CTRL / D_CTRL, the same in both variants: the register takes newval;
\* a change of bit 0 is notified on the halt line and yields; bit 1 calls
\* m_cpu_interrupt and is cleared again; bit 2 sets the pending bit of
\* line 0, is cleared and has the interrupts checked.
ctrl_w_CTRL_stored(s, oldval, newval) ==
    [s EXCEPT
        !.m_ctrl[G_CTRL] =
            IF Test(newval, \h04)
            THEN AndNot32(Or32(AndNot32(newval, \h02), \h40), \h04)
            ELSE AndNot32(newval, \h02),
        !.halt = IF Test(oldval, \h01) # Test(newval, \h01)
                 THEN Append(@, IF Test(newval, \h01)
                                THEN CLEAR_LINE ELSE ASSERT_LINE)
                 ELSE @,
        !.yields = IF Test(oldval, \h01) # Test(newval, \h01) THEN @ + 1 ELSE @,
        !.cpu_interrupt = IF Test(newval, \h02) THEN @ + 1 ELSE @,
        \* both notifications find the register as written; the second is
        \* made before bit 1 is cleared
        !.observed =
            (IF Test(oldval, \h01) # Test(newval, \h01)
             THEN @ \o <<Seen(SetCtrl(s, G_CTRL, newval), "set_input_line"),
                         Seen(SetCtrl(s, G_CTRL, newval), "yield")>>
             ELSE @)
            \o (IF Test(newval, \h02)
                THEN <<Seen(SetCtrl(s, G_CTRL, newval), "m_cpu_interrupt")>>
                ELSE <<>>)]

ctrl_w_CTRL(s, oldval, newval) ==
    IF Test(newval, \h04)
    THEN check_irqs(ctrl_w_CTRL_stored(s, oldval, newval))
    ELSE ctrl_w_CTRL_stored(s, oldval, newval)

\* the endian-select register refusing anything but big-endian
ctrl_w_END_enforced(s, newval) ==
    IF And32(newval, 7) # 7 THEN s ELSE SetCtrl(s, G_END, newval)

\* G_END / D_END: the value is stored; little-endian is logged, no more
ctrl_w_END(s, newval) == SetCtrl(s, G_END, newval)

\* the flags register taking every bit of the written value it keeps,
\* the interrupt mask included
flags_from_data(oldval, newval, kept) == And32(newval, kept + IFLAG)

\* G_FLAGS / D_FLAGS: combine the data properly
flags_combined(oldval, newval, kept) ==
    Or32(And32(newval, kept),
         IF Test(newval, IFLAG) THEN And32(oldval, IFLAG) ELSE 0)

\* the switch of the GPU's ctrl_w
gpu_ctrl_w_switch(s, offset, oldval, newval) ==
    CASE offset = G_FLAGS ->
           check_irqs(
               update_register_banks(
                   [s EXCEPT
                       \* combine the data properly
                       !.m_ctrl[G_FLAGS] =
                           flags_combined(oldval, newval,
                                          ZFLAG + CFLAG + NFLAG + EINT04FLAGS
                                          + RPAGEFLAG),
                       \* clear interrupts
                       !.m_ctrl[G_CTRL] =
                           AndNot32(@, Shr32(And32(newval, CINT04FLAGS), 3))]))
      [] offset \in {G_MTXC, G_MTXA, G_HIDATA, G_DIVCTRL} ->
           SetCtrl(s, offset, newval)
      [] offset = G_END -> ctrl_w_END(s, newval)
      [] offset = G_PC -> SetCtrl(s, G_PC, And32(newval, \hffffff))
      [] offset = G_CTRL -> ctrl_w_CTRL(s, oldval, newval)
      [] OTHER -> s

gpu_ctrl_w(s, offset, data, mem_mask) ==
    \* remember the old and set the new
    gpu_ctrl_w_switch(s, offset, s.m_ctrl[offset],
                      COMBINE_DATA(s.m_ctrl[offset], data, mem_mask))

\* the switch of the DSP's ctrl_w
dsp_ctrl_w_switch(s, offset, oldval, newval) ==
    CASE offset = G_FLAGS ->
           check_irqs(
               update_register_banks(
                   [s EXCEPT
                       \* combine the data properly
                       !.m_ctrl[G_FLAGS] =
                           flags_combined(oldval, newval,
                                          ZFLAG + CFLAG + NFLAG + EINT04FLAGS
                                          + EINT5FLAG + RPAGEFLAG),
                       \* clear interrupts
                       !.m_ctrl[G_CTRL] =
                           AndNot32(AndNot32(@, Shr32(And32(newval, CINT04FLAGS), 3)),
                                    Shr32(And32(newval, CINT5FLAG), 1))]))
      [] offset \in {G_MTXC, G_MTXA, D_MOD, G_DIVCTRL} ->
           SetCtrl(s, offset, newval)
      [] offset = G_END -> ctrl_w_END(s, newval)
      [] offset = G_PC -> SetCtrl(s, G_PC, And32(newval, \hffffff))
      [] offset = G_CTRL -> ctrl_w_CTRL(s, oldval, newval)
      [] OTHER -> s

dsp_ctrl_w(s, offset, data, mem_mask) ==
    \* remember the old and set the new
    dsp_ctrl_w_switch(s, offset, s.m_ctrl[offset],
                      COMBINE_DATA(s.m_ctrl[offset], data, mem_mask))

ctrl_w(s, offset, data, mem_mask) ==
    IF s.m_isdsp THEN dsp_ctrl_w(s, offset, data, mem_mask)
    ELSE gpu_ctrl_w(s, offset, data, mem_mask)

\* the access recorded
Accessed(s, kind, width, a) ==
    [s EXCEPT !.access = Append(@, <<kind, width, a>>),
              !.observed = Append(@, Seen(s, kind))]

WRITELONG(s, a, v) ==
    IF InCtrlPort(s.m_isdsp, a)
    THEN ctrl_w(Accessed(s, "write", 4, a), CtrlPortReg(s.m_isdsp, a), v, -1)
    ELSE [Accessed(s, "write", 4, a) EXCEPT
             !.mem = WriteCell(WriteCell(@, Cell(a), Hi16(v)),
                               Cell(Add32(a, 2)), Lo16(v))]

\* the byte x in the byte lane of address a of the big-endian 32-bit bus,
\* the 16-bit word x in its word lane
ByteLane(a, x) ==
    CASE Addr24(a) % 4 = 0 -> Join16(x * 256, 0)
      [] Addr24(a) % 4 = 1 -> Join16(x, 0)
      [] Addr24(a) % 4 = 2 -> x * 256
      [] OTHER -> x

WordLane(a, x) == IF Addr24(a) % 4 < 2 THEN Join16(x, 0) ELSE x

WRITEWORD(s, a, v) ==
    IF InCtrlPort(s.m_isdsp, a)
    THEN ctrl_w(Accessed(s, "write", 2, a), CtrlPortReg(s.m_isdsp, a),
                WordLane(a, Lo16(v)), WordLane(a, 65535))
    ELSE [Accessed(s, "write", 2, a) EXCEPT
             !.mem = WriteCell(@, Cell(a), Lo16(v))]

WRITEBYTE(s, a, v) ==
    IF InCtrlPort(s.m_isdsp, a)
    THEN ctrl_w(Accessed(s, "write", 1, a), CtrlPortReg(s.m_isdsp, a),
                ByteLane(a, v % 256), ByteLane(a, 255))
    ELSE [Accessed(s, "write", 1, a) EXCEPT
             !.mem = WriteCell(@, Cell(a),
                               IF Addr24(a) % 2 = 0
                               THEN (v % 256) * 256 + (ReadCell(s, Cell(a)) % 256)
                               ELSE (ReadCell(s, Cell(a)) \div 256) * 256
                                    + (v % 256))]

READBYTE(s, a) ==
    IF Addr24(a) % 2 = 0 THEN ReadCell(s, Cell(a)) \div 256
    ELSE ReadCell(s, Cell(a)) % 256

(***************************************************************************)
(* Initialization, reset, save states                                      *)
(***************************************************************************)
device_reset(s) == [s EXCEPT !.m_b0 = "m_r", !.m_b1 = "m_a"]

device_post_load(s) == check_irqs(update_register_banks(s))

(***************************************************************************)
(* Shared tables and operation tables                                      *)
(***************************************************************************)
convert_zero(n) == IF n = 0 THEN 32 ELSE n

\* a table whose codes test C whatever bit 4 of the code is
condition_table_carry_only(i, j) ==
    LET r1 == IF Test(j, 1) /\ Test(i, ZFLAG) THEN 0 ELSE 1
        r2 == IF Test(j, 2) /\ ~Test(i, ZFLAG) THEN 0 ELSE r1
        r3 == IF Test(j, 4) /\ Test(i, CFLAG) THEN 0 ELSE r2
    IN  IF Test(j, 8) /\ ~Test(i, CFLAG) THEN 0 ELSE r3

\* condition_table[i * 32 + j] as init_tables fills it
condition_table(i, j) ==
    LET cbit == CFLAG * (2 ^ (j \div 16))
        r1 == IF Test(j, 1) /\ Test(i, ZFLAG) THEN 0 ELSE 1
        r2 == IF Test(j, 2) /\ ~Test(i, ZFLAG) THEN 0 ELSE r1
        r3 == IF Test(j, 4) /\ Test(i, cbit) THEN 0 ELSE r2
    IN  IF Test(j, 8) /\ ~Test(i, cbit) THEN 0 ELSE r3

CONDITION(s, x) == condition_table(And32(FLAGS(s), 7), x) # 0

gpu_op_table ==
    << "add_rn_rn", "addc_rn_rn", "addq_n_rn", "addqt_n_rn",
       "sub_rn_rn", "subc_rn_rn", "subq_n_rn", "subqt_n_rn",
       "neg_rn", "and_rn_rn", "or_rn_rn", "xor_rn_rn",
       "not_rn", "btst_n_rn", "bset_n_rn", "bclr_n_rn",
       "mult_rn_rn", "imult_rn_rn", "imultn_rn_rn", "resmac_rn",
       "imacn_rn_rn", "div_rn_rn", "abs_rn", "sh_rn_rn",
       "shlq_n_rn", "shrq_n_rn", "sha_rn_rn", "sharq_n_rn",
       "ror_rn_rn", "rorq_n_rn", "cmp_rn_rn", "cmpq_n_rn",
       "sat8_rn", "sat16_rn", "move_rn_rn", "moveq_n_rn",
       "moveta_rn_rn", "movefa_rn_rn", "movei_n_rn", "loadb_rn_rn",
       "loadw_rn_rn", "load_rn_rn", "loadp_rn_rn", "load_r14n_rn",
       "load_r15n_rn", "storeb_rn_rn", "storew_rn_rn", "store_rn_rn",
       "storep_rn_rn", "store_rn_r14n", "store_rn_r15n", "move_pc_rn",
       "jump_cc_rn", "jr_cc_n", "mmult_rn_rn", "mtoi_rn_rn",
       "normi_rn_rn", "nop", "load_r14rn_rn", "load_r15rn_rn",
       "store_rn_r14rn", "store_rn_r15rn", "sat24_rn", "pack_rn" >>

dsp_op_table ==
    << "add_rn_rn", "addc_rn_rn", "addq_n_rn", "addqt_n_rn",
       "sub_rn_rn", "subc_rn_rn", "subq_n_rn", "subqt_n_rn",
       "neg_rn", "and_rn_rn", "or_rn_rn", "xor_rn_rn",
       "not_rn", "btst_n_rn", "bset_n_rn", "bclr_n_rn",
       "mult_rn_rn", "imult_rn_rn", "imultn_rn_rn", "resmac_rn",
       "imacn_rn_rn", "div_rn_rn", "abs_rn", "sh_rn_rn",
       "shlq_n_rn", "shrq_n_rn", "sha_rn_rn", "sharq_n_rn",
       "ror_rn_rn", "rorq_n_rn", "cmp_rn_rn", "cmpq_n_rn",
       "subqmod_n_rn", "sat16s_rn", "move_rn_rn", "moveq_n_rn",
       "moveta_rn_rn", "movefa_rn_rn", "movei_n_rn", "loadb_rn_rn",
       "loadw_rn_rn", "load_rn_rn", "sat32s_rn", "load_r14n_rn",
       "load_r15n_rn", "storeb_rn_rn", "storew_rn_rn", "store_rn_rn",
       "mirror_rn", "store_rn_r14n", "store_rn_r15n", "move_pc_rn",
       "jump_cc_rn", "jr_cc_n", "mmult_rn_rn", "mtoi_rn_rn",
       "normi_rn_rn", "nop", "load_r14rn_rn", "load_r15rn_rn",
       "store_rn_r14rn", "store_rn_r15rn", "illegal", "addqmod_n_rn" >>

\* the GPU's table whatever the variant
m_table_gpu_only(s) == gpu_op_table

\* m_table, chosen at construction
m_table(s) == IF s.m_isdsp THEN dsp_op_table ELSE gpu_op_table

\* op >> 10, (op >> 5) & 31, op & 31
OpIndex(opw) == opw \div 1024

OpSrc(opw) == (opw \div 32) % 32

OpDst(opw) == opw % 32

(***************************************************************************)
(* Flag helpers                                                            *)
(***************************************************************************)
CLR_ZN(s) == SetCtrl(s, G_FLAGS, AndNot32(FLAGS(s), ZFLAG + NFLAG))

SET_ZN(s, r) ==
    SetCtrl(s, G_FLAGS,
            Or32(FLAGS(s),
                 (IF r < 0 THEN NFLAG ELSE 0) + (IF r = 0 THEN ZFLAG ELSE 0)))

\* (int16_t)x
Int16(x) == IF Lo16(x) >= 32768 THEN Lo16(x) - 65536 ELSE Lo16(x)

\* (u32)x for an integer x
U32(x) == Join16(Hi16(x), Lo16(x))

\* The accumulator m_accum is wider than TLC's integers: it is kept as
\* hi * 2^16 + lo with 0 <= lo < 2^16.  Acc(x) is (s64)x for a signed 32-bit
\* x, AccAdd(acc, p) is acc + (s64)p, AccLow32(acc) is (u32)acc.
Acc(x) == [hi |-> x \div 65536, lo |-> x % 65536]

AccAdd(acc, p) ==
    [hi |-> acc.hi + (p \div 65536) + ((acc.lo + (p % 65536)) \div 65536),
     lo |-> (acc.lo + (p % 65536)) % 65536]

AccLow32(acc) == Join16(acc.hi % 65536, acc.lo)

(***************************************************************************)
(* Opcode handlers.  Each takes the state after the fetch (PC already      *)
(* advanced past the opcode word) and the opcode word.                     *)
(***************************************************************************)
\* an illegal opcode stopping the core
illegal_halting(s, opw) == SetCtrl(s, G_CTRL, AndNot32(s.m_ctrl[G_CTRL], 1))

illegal(s, opw) == s

nop(s, opw) == s

move_rn_rn(s, opw) == [s EXCEPT !.m_r[OpDst(opw)] = s.m_r[OpSrc(opw)]]

move_pc_rn(s, opw) == [s EXCEPT !.m_r[OpDst(opw)] = s.m_ppc]

movefa_rn_rn(s, opw) == [s EXCEPT !.m_r[OpDst(opw)] = s.m_a[OpSrc(opw)]]

moveta_rn_rn(s, opw) == [s EXCEPT !.m_a[OpDst(opw)] = s.m_r[OpSrc(opw)]]

moveq_n_rn(s, opw) == [s EXCEPT !.m_r[OpDst(opw)] = OpSrc(opw)]

movei_n_rn(s, opw) ==
    LET res == Join16(ROPCODE(s, Add32(PC(s), 2)), ROPCODE(s, PC(s)))
    IN  [SetCtrl(s, G_PC, Add32(PC(s), 4)) EXCEPT !.m_r[OpDst(opw)] = res]

load_rn_rn(s, opw) ==
    [Accessed(s, "read", 4, s.m_r[OpSrc(opw)]) EXCEPT
        !.m_r[OpDst(opw)] = READLONG(s, s.m_r[OpSrc(opw)])]

\* r1 >= m_internal_ram_start && r1 <= m_internal_ram_end
InInternalRam(s, r1) ==
    r1 >= InternalRamStart(s.m_isdsp) /\ r1 <= InternalRamEnd(s.m_isdsp)

loadb_rn_rn(s, opw) ==
    IF InInternalRam(s, s.m_r[OpSrc(opw)])
    THEN [Accessed(s, "read", 4, AndNot32(s.m_r[OpSrc(opw)], 3)) EXCEPT
             !.m_r[OpDst(opw)] = READLONG(s, AndNot32(s.m_r[OpSrc(opw)], 3))]
    ELSE [Accessed(s, "read", 1, s.m_r[OpSrc(opw)]) EXCEPT
             !.m_r[OpDst(opw)] = READBYTE(s, s.m_r[OpSrc(opw)])]

loadw_rn_rn(s, opw) ==
    IF InInternalRam(s, s.m_r[OpSrc(opw)])
    THEN [Accessed(s, "read", 4, AndNot32(s.m_r[OpSrc(opw)], 3)) EXCEPT
             !.m_r[OpDst(opw)] = READLONG(s, AndNot32(s.m_r[OpSrc(opw)], 3))]
    ELSE [Accessed(s, "read", 2, s.m_r[OpSrc(opw)]) EXCEPT
             !.m_r[OpDst(opw)] = READWORD(s, s.m_r[OpSrc(opw)])]

storeb_rn_rn(s, opw) ==
    IF InInternalRam(s, s.m_r[OpSrc(opw)])
    THEN WRITELONG(s, AndNot32(s.m_r[OpSrc(opw)], 3), s.m_r[OpDst(opw)])
    ELSE WRITEBYTE(s, s.m_r[OpSrc(opw)], s.m_r[OpDst(opw)])

storew_rn_rn(s, opw) ==
    IF InInternalRam(s, s.m_r[OpSrc(opw)])
    THEN WRITELONG(s, AndNot32(s.m_r[OpSrc(opw)], 3), s.m_r[OpDst(opw)])
    ELSE WRITEWORD(s, s.m_r[OpSrc(opw)], s.m_r[OpDst(opw)])

store_rn_rn(s, opw) == WRITELONG(s, s.m_r[OpSrc(opw)], s.m_r[OpDst(opw)])

resmac_rn(s, opw) == [s EXCEPT !.m_r[OpDst(opw)] = AccLow32(s.m_accum)]

imacn_rn_rn(s, opw) ==
    [s EXCEPT !.m_accum =
                  AccAdd(@, Int16(s.m_r[OpSrc(opw)]) * Int16(s.m_r[OpDst(opw)]))]

\* the while loop of imultn_rn_rn and the test that follows it
RECURSIVE imultn_chain(_)
imultn_chain(s) ==
    LET opw == ROPCODE(s, PC(s))
    IN  IF OpIndex(opw) = 20
        THEN imultn_chain(
                 [SetCtrl(s, G_PC, Add32(PC(s), 2)) EXCEPT
                     !.m_accum = AccAdd(@, Int16(s.m_r[OpSrc(opw)])
                                           * Int16(s.m_r[OpDst(opw)])),
                     !.chain = @ + 1])
        ELSE IF OpIndex(opw) = 19
        THEN [SetCtrl(s, G_PC, Add32(PC(s), 2)) EXCEPT
                 !.m_r[OpDst(opw)] = AccLow32(s.m_accum), !.chain = @ + 1]
        ELSE s

\* imultn without the fetch of the words that follow it
imultn_rn_rn_unchained(s, opw) ==
    LET res == Int16(s.m_r[OpSrc(opw)]) * Int16(s.m_r[OpDst(opw)])
    IN  SET_ZN(CLR_ZN([s EXCEPT !.m_accum = Acc(res)]), res)

imultn_rn_rn(s, opw) ==
    LET res == Int16(s.m_r[OpSrc(opw)]) * Int16(s.m_r[OpDst(opw)])
    IN  imultn_chain(SET_ZN(CLR_ZN([s EXCEPT !.m_accum = Acc(res)]), res))

\* Unsigned division of a 32-bit or 48-bit numerator by a 32-bit divisor,
\* bit by bit from the most significant bit: st holds the running
\* remainder (rh above 16 bits, rl the low 16 bits) and the low 32 bits of
\* the quotient (qh, ql).
UBit(x, j) ==
    IF j >= 16 THEN (Hi16(x) \div (2 ^ (j - 16))) % 2
    ELSE (Lo16(x) \div (2 ^ j)) % 2

\* bit i of (u64)r2 << shift
NumBit(r2, shift, i) == IF i < shift THEN 0 ELSE UBit(r2, i - shift)

udiv_shift(st, bit) ==
    [st EXCEPT !.rl = (2 * st.rl + bit) % 65536,
               !.rh = 2 * st.rh + ((2 * st.rl + bit) \div 65536)]

udiv_ge(st, d) == st.rh > Hi16(d) \/ (st.rh = Hi16(d) /\ st.rl >= Lo16(d))

\* the divisor subtracted and a quotient bit 1 shifted in
udiv_sub(st, d) ==
    [rh |-> st.rh - Hi16(d) - (IF st.rl < Lo16(d) THEN 1 ELSE 0),
     rl |-> (st.rl - Lo16(d)) % 65536,
     qh |-> (2 * st.qh + ((2 * st.ql + 1) \div 65536)) % 65536,
     ql |-> (2 * st.ql + 1) % 65536]

\* a quotient bit 0 shifted in
udiv_keep(st) ==
    [st EXCEPT !.qh = (2 * st.qh + ((2 * st.ql) \div 65536)) % 65536,
               !.ql = (2 * st.ql) % 65536]

RECURSIVE udiv_loop(_, _, _, _, _)
RECURSIVE udiv_compare(_, _, _, _, _)
udiv_compare(r2, shift, d, i, st) ==
    IF udiv_ge(st, d) THEN udiv_loop(r2, shift, d, i - 1, udiv_sub(st, d))
    ELSE udiv_loop(r2, shift, d, i - 1, udiv_keep(st))

udiv_loop(r2, shift, d, i, st) ==
    IF i < 0 THEN st
    ELSE udiv_compare(r2, shift, d, i, udiv_shift(st, NumBit(r2, shift, i)))

\* ((u64)r2 << shift) / r1 and ((u64)r2 << shift) % r1
UDivMod(r2, shift, r1) ==
    udiv_loop(r2, shift, r1, 31 + shift, [rh |-> 0, rl |-> 0, qh |-> 0, ql |-> 0])

div_store(s, dreg, st) ==
    [SetCtrl(s, D_REMAINDER, Join16(st.rh, st.rl)) EXCEPT
        !.m_r[dreg] = Join16(st.qh, st.ql)]

\* div whose zero-divisor branch also clears the remainder
div_rn_rn_clearing(s, opw) ==
    IF s.m_r[OpSrc(opw)] # 0
    THEN div_store(s, OpDst(opw),
                   UDivMod(s.m_r[OpDst(opw)],
                           IF Test(s.m_ctrl[G_DIVCTRL], 1) THEN 16 ELSE 0,
                           s.m_r[OpSrc(opw)]))
    ELSE [SetCtrl(s, D_REMAINDER, 0) EXCEPT !.m_r[OpDst(opw)] = -1]

div_rn_rn(s, opw) ==
    IF s.m_r[OpSrc(opw)] # 0
    THEN div_store(s, OpDst(opw),
                   UDivMod(s.m_r[OpDst(opw)],
                           IF Test(s.m_ctrl[G_DIVCTRL], 1) THEN 16 ELSE 0,
                           s.m_r[OpSrc(opw)]))
    ELSE [s EXCEPT !.m_r[OpDst(opw)] = -1]

CLR_ZNC(s) == SetCtrl(s, G_FLAGS, AndNot32(FLAGS(s), CFLAG + ZFLAG + NFLAG))

\* b > a for u32 a, b
UGt(b, a) == Hi16(b) > Hi16(a) \/ (Hi16(b) = Hi16(a) /\ Lo16(b) > Lo16(a))

\* m_ctrl[G_FLAGS] |= (b > (~a)) << 1
SET_C_ADD(s, a, b) ==
    SetCtrl(s, G_FLAGS, Or32(FLAGS(s), IF UGt(b, Not32(a)) THEN CFLAG ELSE 0))

\* m_ctrl[G_FLAGS] |= (b > a) << 1
SET_C_SUB(s, a, b) ==
    SetCtrl(s, G_FLAGS, Or32(FLAGS(s), IF UGt(b, a) THEN CFLAG ELSE 0))

SET_ZNC_ADD(s, a, b, r) == SET_C_ADD(SET_ZN(s, r), a, b)

SET_ZNC_SUB(s, a, b, r) == SET_C_SUB(SET_ZN(s, r), a, b)

\* (FLAGS >> 1) & 1
CarryIn(s) == IF Test(FLAGS(s), CFLAG) THEN 1 ELSE 0

addc_rn_rn(s, opw) ==
    LET r1 == s.m_r[OpSrc(opw)]
        r2 == s.m_r[OpDst(opw)]
        c == CarryIn(s)
        res == Add32(Add32(r2, r1), c)
    IN  SET_ZNC_ADD(CLR_ZNC([s EXCEPT !.m_r[OpDst(opw)] = res]),
                    r2, Add32(r1, c), res)

subc_rn_rn(s, opw) ==
    LET r1 == s.m_r[OpSrc(opw)]
        r2 == s.m_r[OpDst(opw)]
        c == CarryIn(s)
        res == Sub32(Sub32(r2, r1), c)
    IN  SET_ZNC_SUB(CLR_ZNC([s EXCEPT !.m_r[OpDst(opw)] = res]),
                    r2, Add32(r1, c), res)

\* DSP only
addqmod_n_rn(s, opw) ==
    LET r1 == convert_zero(OpSrc(opw))
        r2 == s.m_r[OpDst(opw)]
        res == Or32(AndNot32(Add32(r2, r1), s.m_ctrl[D_MOD]),
                    AndNot32(r2, s.m_ctrl[D_MOD]))
    IN  SET_ZNC_ADD(CLR_ZNC([s EXCEPT !.m_r[OpDst(opw)] = res]), r2, r1, res)

\* DSP only
subqmod_n_rn(s, opw) ==
    LET r1 == convert_zero(OpSrc(opw))
        r2 == s.m_r[OpDst(opw)]
        res == Or32(AndNot32(Sub32(r2, r1), s.m_ctrl[D_MOD]),
                    AndNot32(r2, s.m_ctrl[D_MOD]))
    IN  SET_ZNC_SUB(CLR_ZNC([s EXCEPT !.m_r[OpDst(opw)] = res]), r2, r1, res)

\* x << n for a u32 x and 0 <= n < 32
Shl32(x, n) ==
    IF n >= 16 THEN Join16((Lo16(x) * (2 ^ (n - 16))) % 65536, 0)
    ELSE Join16((Hi16(x) * (2 ^ n) + ((Lo16(x) * (2 ^ n)) \div 65536)) % 65536,
                (Lo16(x) * (2 ^ n)) % 65536)

\* (s32)x >> n for 0 <= n < 32
Sar32(x, n) ==
    IF n = 31 THEN (IF x < 0 THEN -1 ELSE 0)
    ELSE IF x < 0 THEN -1 - ((-1 - x) \div (2 ^ n)) ELSE x \div (2 ^ n)

\* the carry of sh and sha: the bit shifted out first
ShiftCarry(r1, r2) ==
    IF r1 < 0 THEN And32(Shr32(r2, 30), 2) ELSE And32(Shl32(r2, 1), 2)

sh_rn_rn(s, opw) ==
    LET r1 == s.m_r[OpSrc(opw)]
        r2 == s.m_r[OpDst(opw)]
        res == IF r1 < 0
               THEN (IF r1 <= -32 THEN 0 ELSE Shl32(r2, -r1))
               ELSE (IF r1 >= 32 THEN 0 ELSE Shr32(r2, r1))
        s1 == CLR_ZNC(s)
    IN  SET_ZN([SetCtrl(s1, G_FLAGS, Or32(FLAGS(s1), ShiftCarry(r1, r2)))
                   EXCEPT !.m_r[OpDst(opw)] = res], res)

\* sha clamping the right shift to zero as well
sha_rn_rn_clamped(s, opw) ==
    LET r1 == s.m_r[OpSrc(opw)]
        r2 == s.m_r[OpDst(opw)]
        res == IF r1 < 0
               THEN (IF r1 <= -32 THEN 0 ELSE Shl32(r2, -r1))
               ELSE (IF r1 >= 32 THEN 0 ELSE Sar32(r2, r1))
        s1 == CLR_ZNC(s)
    IN  SET_ZN([SetCtrl(s1, G_FLAGS, Or32(FLAGS(s1), ShiftCarry(r1, r2)))
                   EXCEPT !.m_r[OpDst(opw)] = res], res)

sha_rn_rn(s, opw) ==
    LET r1 == s.m_r[OpSrc(opw)]
        r2 == s.m_r[OpDst(opw)]
        res == IF r1 < 0
               THEN (IF r1 <= -32 THEN 0 ELSE Shl32(r2, -r1))
               ELSE (IF r1 >= 32 THEN Sar32(r2, 31) ELSE Sar32(r2, r1))
        s1 == CLR_ZNC(s)
    IN  SET_ZN([SetCtrl(s1, G_FLAGS, Or32(FLAGS(s1), ShiftCarry(r1, r2)))
                   EXCEPT !.m_r[OpDst(opw)] = res], res)

\* the array m_b1 points to
B1(s) == IF s.m_b1 = "m_r" THEN s.m_r ELSE s.m_a

\* m_b1[k]: the register for k < 32, and past the end of the array whatever
\* lies behind it
MtxReg(s, k) == IF k \in Regs THEN B1(s)[k] ELSE s.wild

\* (int16_t)(m_b1[sreg + i/2] >> (16 * ((i & 1) ^ 1)))
MtxHalf(s, sreg, i) ==
    Int16(IF i % 2 = 0 THEN Hi16(MtxReg(s, sreg + (i \div 2)))
          ELSE Lo16(MtxReg(s, sreg + (i \div 2))))

\* the terms i, i + 1, ... of either for loop of mmult_rn_rn: the state with
\* the words read and the sum
RECURSIVE mmult_loop(_, _, _, _, _, _)
mmult_loop(s, accum, sreg, i, addr, step) ==
    IF i >= And32(s.m_ctrl[G_MTXC], 15) THEN [s |-> s, accum |-> accum]
    ELSE mmult_loop(Accessed(s, "read", 2, addr),
                    AccAdd(accum, MtxHalf(s, sreg, i) * Int16(READWORD(s, addr))),
                    sreg, i + 1, Add32(addr, step), step)

mmult_rn_rn(s, opw) ==
    LET step == IF ~Test(s.m_ctrl[G_MTXC], 16) THEN 2
                ELSE 2 * And32(s.m_ctrl[G_MTXC], 15)
        end == mmult_loop(s, Acc(0), OpSrc(opw), 0, s.m_ctrl[G_MTXA], step)
        res == AccLow32(end.accum)
    IN  SET_ZN(CLR_ZN([end.s EXCEPT !.m_r[OpDst(opw)] = res]), res)

\* a ^ b = a + b - 2 * (a & b), half by half
Xor32(a, b) ==
    Join16(Hi16(a) + Hi16(b) - 2 * And16(Hi16(a), Hi16(b)),
           Lo16(a) + Lo16(b) - 2 * And16(Lo16(a), Lo16(b)))

\* (u16)a * (u16)b as a u32, by bytes of a
Mul16(a, b) ==
    Add32(Join16(((Lo16(a) \div 256) * Lo16(b)) \div 256,
                 ((((Lo16(a) \div 256) * Lo16(b)) % 256) * 256)),
          (Lo16(a) % 256) * Lo16(b))

\* mirror_table[i]: the 16 bits of i in reverse order
RECURSIVE mirror_bits(_, _)
mirror_bits(i, n) ==
    IF n = 0 THEN 0
    ELSE (i % 2) * (2 ^ (n - 1)) + mirror_bits(i \div 2, n - 1)

mirror_table(i) == mirror_bits(i, 16)

\* m_ctrl[G_FLAGS] |= (r == 0)
SET_Z(s, r) ==
    SetCtrl(s, G_FLAGS, Or32(FLAGS(s), IF r = 0 THEN ZFLAG ELSE 0))

abs_rn(s, opw) ==
    LET res == s.m_r[OpDst(opw)]
    IN  IF res < 0
        THEN SET_Z(SetCtrl([s EXCEPT !.m_r[OpDst(opw)] = Sub32(0, res)],
                           G_FLAGS, Or32(FLAGS(CLR_ZNC(s)), CFLAG)),
                   Sub32(0, res))
        ELSE SET_Z(CLR_ZNC(s), res)

add_rn_rn(s, opw) ==
    LET r1 == s.m_r[OpSrc(opw)]
        r2 == s.m_r[OpDst(opw)]
    IN  SET_ZNC_ADD(CLR_ZNC([s EXCEPT !.m_r[OpDst(opw)] = Add32(r2, r1)]),
                    r2, r1, Add32(r2, r1))

addq_n_rn(s, opw) ==
    LET r1 == convert_zero(OpSrc(opw))
        r2 == s.m_r[OpDst(opw)]
    IN  SET_ZNC_ADD(CLR_ZNC([s EXCEPT !.m_r[OpDst(opw)] = Add32(r2, r1)]),
                    r2, r1, Add32(r2, r1))

\* addqt with the flag update of addq
addqt_n_rn_flagged(s, opw) == addq_n_rn(s, opw)

addqt_n_rn(s, opw) ==
    [s EXCEPT !.m_r[OpDst(opw)] = Add32(@, convert_zero(OpSrc(opw)))]

and_rn_rn(s, opw) ==
    LET res == And32(s.m_r[OpDst(opw)], s.m_r[OpSrc(opw)])
    IN  SET_ZN(CLR_ZN([s EXCEPT !.m_r[OpDst(opw)] = res]), res)

bclr_n_rn(s, opw) ==
    LET res == AndNot32(s.m_r[OpDst(opw)], Shl32(1, OpSrc(opw)))
    IN  SET_ZN(CLR_ZN([s EXCEPT !.m_r[OpDst(opw)] = res]), res)

bset_n_rn(s, opw) ==
    LET res == Or32(s.m_r[OpDst(opw)], Shl32(1, OpSrc(opw)))
    IN  SET_ZN(CLR_ZN([s EXCEPT !.m_r[OpDst(opw)] = res]), res)

\* CLR_Z(); FLAGS |= (~r2 >> r1) & 1
btst_n_rn(s, opw) ==
    SetCtrl(s, G_FLAGS,
            Or32(AndNot32(FLAGS(s), ZFLAG),
                 And32(Shr32(Not32(s.m_r[OpDst(opw)]), OpSrc(opw)), 1)))

cmp_rn_rn(s, opw) ==
    LET r1 == s.m_r[OpSrc(opw)]
        r2 == s.m_r[OpDst(opw)]
    IN  SET_ZNC_SUB(CLR_ZNC(s), r2, r1, Sub32(r2, r1))

\* r1 = (s8)(op >> 2) >> 3: the 5-bit field sign-extended
cmpq_n_rn(s, opw) ==
    LET r1 == IF OpSrc(opw) >= 16 THEN OpSrc(opw) - 32 ELSE OpSrc(opw)
        r2 == s.m_r[OpDst(opw)]
    IN  SET_ZNC_SUB(CLR_ZNC(s), r2, r1, Sub32(r2, r1))

imult_rn_rn(s, opw) ==
    LET res == Int16(s.m_r[OpSrc(opw)]) * Int16(s.m_r[OpDst(opw)])
    IN  SET_ZN(CLR_ZN([s EXCEPT !.m_r[OpDst(opw)] = res]), res)

load_r14n_rn(s, opw) ==
    LET a == Add32(s.m_r[14], 4 * convert_zero(OpSrc(opw)))
    IN  [Accessed(s, "read", 4, a) EXCEPT !.m_r[OpDst(opw)] = READLONG(s, a)]

load_r15n_rn(s, opw) ==
    LET a == Add32(s.m_r[15], 4 * convert_zero(OpSrc(opw)))
    IN  [Accessed(s, "read", 4, a) EXCEPT !.m_r[OpDst(opw)] = READLONG(s, a)]

load_r14rn_rn(s, opw) ==
    LET a == Add32(s.m_r[14], s.m_r[OpSrc(opw)])
    IN  [Accessed(s, "read", 4, a) EXCEPT !.m_r[OpDst(opw)] = READLONG(s, a)]

load_r15rn_rn(s, opw) ==
    LET a == Add32(s.m_r[15], s.m_r[OpSrc(opw)])
    IN  [Accessed(s, "read", 4, a) EXCEPT !.m_r[OpDst(opw)] = READLONG(s, a)]

\* GPU only
loadp_rn_rn(s, opw) ==
    LET r1 == s.m_r[OpSrc(opw)]
    IN  IF InInternalRam(s, r1)
        THEN [Accessed(s, "read", 4, AndNot32(r1, 3)) EXCEPT
                 !.m_r[OpDst(opw)] = READLONG(s, AndNot32(r1, 3))]
        ELSE [Accessed(Accessed(s, "read", 4, r1), "read", 4, Add32(r1, 4))
                 EXCEPT !.m_ctrl[G_HIDATA] = READLONG(s, r1),
                        !.m_r[OpDst(opw)] = READLONG(s, Add32(r1, 4))]

\* DSP only
mirror_rn(s, opw) ==
    LET r1 == s.m_r[OpDst(opw)]
        res == Join16(mirror_table(Lo16(r1)), mirror_table(Hi16(r1)))
    IN  SET_ZN(CLR_ZN([s EXCEPT !.m_r[OpDst(opw)] = res]), res)

\* (((s32)r1 >> 8) & 0xff800000) | (r1 & 0x007fffff)
mtoi_rn_rn(s, opw) ==
    LET r1 == s.m_r[OpSrc(opw)]
    IN  [s EXCEPT !.m_r[OpDst(opw)] =
                      Or32(And32(Sar32(r1, 8), Join16(\hFF80, 0)),
                           And32(r1, \h7FFFFF))]

mult_rn_rn(s, opw) ==
    LET res == Mul16(s.m_r[OpSrc(opw)], s.m_r[OpDst(opw)])
    IN  SET_ZN(CLR_ZN([s EXCEPT !.m_r[OpDst(opw)] = res]), res)

neg_rn(s, opw) ==
    LET r2 == s.m_r[OpDst(opw)]
    IN  SET_ZNC_SUB(CLR_ZNC([s EXCEPT !.m_r[OpDst(opw)] = Sub32(0, r2)]),
                    0, r2, Sub32(0, r2))

\* the two while loops of normi_rn_rn, for r1 # 0
RECURSIVE normi_up(_, _)
normi_up(r1, res) ==
    IF Hi16(r1) < 64 THEN normi_up(Shl32(r1, 1), res - 1)
    ELSE [r1 |-> r1, res |-> res]

RECURSIVE normi_down(_, _)
normi_down(r1, res) ==
    IF Hi16(r1) >= 128 THEN normi_down(Shr32(r1, 1), res + 1) ELSE res

normi_rn_rn(s, opw) ==
    LET r1 == s.m_r[OpSrc(opw)]
        res == IF r1 # 0
               THEN normi_down(normi_up(r1, 0).r1, normi_up(r1, 0).res)
               ELSE 0
    IN  SET_ZN(CLR_ZN([s EXCEPT !.m_r[OpDst(opw)] = res]), res)

not_rn(s, opw) ==
    LET res == Not32(s.m_r[OpDst(opw)])
    IN  SET_ZN(CLR_ZN([s EXCEPT !.m_r[OpDst(opw)] = res]), res)

or_rn_rn(s, opw) ==
    LET res == Or32(s.m_r[OpSrc(opw)], s.m_r[OpDst(opw)])
    IN  SET_ZN(CLR_ZN([s EXCEPT !.m_r[OpDst(opw)] = res]), res)

\* GPU only
pack_rn(s, opw) ==
    LET r2 == s.m_r[OpDst(opw)]
        res == IF OpSrc(opw) = 0
               THEN Or32(Or32(And32(Shr32(r2, 10), \hF000),
                              And32(Shr32(r2, 5), \h0F00)),
                         And32(r2, \hFF))
               ELSE Or32(Or32(Shl32(And32(r2, \hF000), 10),
                              Shl32(And32(r2, \h0F00), 5)),
                         And32(r2, \hFF))
    IN  [s EXCEPT !.m_r[OpDst(opw)] = res]

\* (r2 >> r1) | (r2 << (32 - r1)) for 0 <= r1 <= 32; a count of 0 or 32
\* leaves one of the two shifts at the full width, and r2 comes out whichever
\* way the machine treats it
Ror32(r2, r1) ==
    IF r1 % 32 = 0 THEN r2 ELSE Or32(Shr32(r2, r1), Shl32(r2, 32 - r1))

\* CLR_ZNC(); SET_ZN(res); FLAGS |= c
Shifted(s, dreg, res, c) ==
    SetCtrl(SET_ZN(CLR_ZNC([s EXCEPT !.m_r[dreg] = res]), res), G_FLAGS,
            Or32(FLAGS(SET_ZN(CLR_ZNC(s), res)), c))

ror_rn_rn(s, opw) ==
    LET r2 == s.m_r[OpDst(opw)]
    IN  Shifted(s, OpDst(opw), Ror32(r2, And32(s.m_r[OpSrc(opw)], 31)),
                And32(Shr32(r2, 30), 2))

rorq_n_rn(s, opw) ==
    LET r2 == s.m_r[OpDst(opw)]
    IN  Shifted(s, OpDst(opw), Ror32(r2, convert_zero(OpSrc(opw))),
                And32(Shr32(r2, 30), 2))

\* GPU only
sat8_rn(s, opw) ==
    LET r2 == s.m_r[OpDst(opw)]
        res == IF r2 < 0 THEN 0 ELSE IF r2 > 255 THEN 255 ELSE r2
    IN  SET_ZN(CLR_ZN([s EXCEPT !.m_r[OpDst(opw)] = res]), res)

\* GPU only
sat16_rn(s, opw) ==
    LET r2 == s.m_r[OpDst(opw)]
        res == IF r2 < 0 THEN 0 ELSE IF r2 > 65535 THEN 65535 ELSE r2
    IN  SET_ZN(CLR_ZN([s EXCEPT !.m_r[OpDst(opw)] = res]), res)

\* DSP only
sat16s_rn(s, opw) ==
    LET r2 == s.m_r[OpDst(opw)]
        res == IF r2 < -32768 THEN -32768 ELSE IF r2 > 32767 THEN 32767 ELSE r2
    IN  SET_ZN(CLR_ZN([s EXCEPT !.m_r[OpDst(opw)] = res]), res)

\* GPU only
sat24_rn(s, opw) ==
    LET r2 == s.m_r[OpDst(opw)]
        res == IF r2 < 0 THEN 0 ELSE IF r2 > 16777215 THEN 16777215 ELSE r2
    IN  SET_ZN(CLR_ZN([s EXCEPT !.m_r[OpDst(opw)] = res]), res)

\* DSP only; temp = m_accum >> 32
sat32s_rn(s, opw) ==
    LET r2 == s.m_r[OpDst(opw)]
        temp == s.m_accum.hi \div 65536
        res == IF temp < -1 THEN -2147483647 - 1
               ELSE IF temp > 0 THEN \h7FFFFFFF ELSE r2
    IN  SET_ZN(CLR_ZN([s EXCEPT !.m_r[OpDst(opw)] = res]), res)

\* (s32)r2 >> r1 for r1 = 1 .. 32; at 32 the shift is of the full width and
\* gives r2 where the machine masks the count, the sign fill where it does
\* not (s.wild chooses)
sharq_n_rn(s, opw) ==
    LET r1 == convert_zero(OpSrc(opw))
        r2 == s.m_r[OpDst(opw)]
        res == IF r1 < 32 THEN Sar32(r2, r1)
               ELSE IF s.wild = 0 THEN r2 ELSE Sar32(r2, 31)
    IN  Shifted(s, OpDst(opw), res, And32(Shl32(r2, 1), 2))

\* r2 << (32 - r1)
shlq_n_rn(s, opw) ==
    LET r2 == s.m_r[OpDst(opw)]
    IN  Shifted(s, OpDst(opw), Shl32(r2, 32 - convert_zero(OpSrc(opw))),
                And32(Shr32(r2, 30), 2))

\* r2 >> r1 for r1 = 1 .. 32; at 32 the shift is of the full width and gives
\* r2 where the machine masks the count, 0 where it does not (s.wild chooses)
shrq_n_rn(s, opw) ==
    LET r1 == convert_zero(OpSrc(opw))
        r2 == s.m_r[OpDst(opw)]
        res == IF r1 < 32 THEN Shr32(r2, r1)
               ELSE IF s.wild = 0 THEN r2 ELSE 0
    IN  Shifted(s, OpDst(opw), res, And32(Shl32(r2, 1), 2))

store_rn_r14n(s, opw) ==
    WRITELONG(s, Add32(s.m_r[14], convert_zero(OpSrc(opw)) * 4),
              s.m_r[OpDst(opw)])

store_rn_r15n(s, opw) ==
    WRITELONG(s, Add32(s.m_r[15], convert_zero(OpSrc(opw)) * 4),
              s.m_r[OpDst(opw)])

store_rn_r14rn(s, opw) ==
    WRITELONG(s, Add32(s.m_r[14], s.m_r[OpSrc(opw)]), s.m_r[OpDst(opw)])

store_rn_r15rn(s, opw) ==
    WRITELONG(s, Add32(s.m_r[15], s.m_r[OpSrc(opw)]), s.m_r[OpDst(opw)])

\* GPU only
storep_rn_rn(s, opw) ==
    LET r1 == s.m_r[OpSrc(opw)]
    IN  IF InInternalRam(s, r1)
        THEN WRITELONG(s, AndNot32(r1, 3), s.m_r[OpDst(opw)])
        ELSE WRITELONG(WRITELONG(s, r1, s.m_ctrl[G_HIDATA]), Add32(r1, 4),
                       WRITELONG(s, r1, s.m_ctrl[G_HIDATA]).m_r[OpDst(opw)])

sub_rn_rn(s, opw) ==
    LET r1 == s.m_r[OpSrc(opw)]
        r2 == s.m_r[OpDst(opw)]
    IN  SET_ZNC_SUB(CLR_ZNC([s EXCEPT !.m_r[OpDst(opw)] = Sub32(r2, r1)]),
                    r2, r1, Sub32(r2, r1))

subq_n_rn(s, opw) ==
    LET r1 == convert_zero(OpSrc(opw))
        r2 == s.m_r[OpDst(opw)]
    IN  SET_ZNC_SUB(CLR_ZNC([s EXCEPT !.m_r[OpDst(opw)] = Sub32(r2, r1)]),
                    r2, r1, Sub32(r2, r1))

subqt_n_rn(s, opw) ==
    [s EXCEPT !.m_r[OpDst(opw)] = Sub32(@, convert_zero(OpSrc(opw)))]

xor_rn_rn(s, opw) ==
    LET res == Xor32(s.m_r[OpSrc(opw)], s.m_r[OpDst(opw)])
    IN  SET_ZN(CLR_ZN([s EXCEPT !.m_r[OpDst(opw)] = res]), res)

\* the handlers of the two operation tables
Modelled == {gpu_op_table[i] : i \in 1 .. 64} \cup {dsp_op_table[i] : i \in 1 .. 64}

\* the displacement of jr: (s8)((op >> 2) & 0xf8) >> 2
JrDisp(opw) == IF OpSrc(opw) >= 16 THEN 2 * (OpSrc(opw) - 32) ELSE 2 * OpSrc(opw)

\* 3 wait states guaranteed
BranchCost == 3

RECURSIVE Dispatch(_, _)

\* what a branch handler does once the handler of the instruction it folded
\* has returned: m_icount -= 3.  Where the handlers call each other without
\* end, none returns.
Returned(s1) == IF s1.diverged THEN s1 ELSE [s1 EXCEPT !.m_icount = @ - BranchCost]

\* a taken jr without its wait states
jr_cc_n_no_wait(s, opw) ==
    IF CONDITION(s, OpDst(opw))
    THEN LET newpc == Add32(PC(s), U32(JrDisp(opw)))
             op2 == ROPCODE(s, PC(s))
         IN  IF <<PC(s), opw>> \in s.trail THEN [s EXCEPT !.diverged = TRUE]
             ELSE Dispatch([SetCtrl(s, G_PC, newpc) EXCEPT
                               !.taken = @ + 1,
                               !.trail = @ \cup {<<PC(s), opw>>}], op2)
    ELSE s

jr_cc_n(s, opw) ==
    IF CONDITION(s, OpDst(opw))
    THEN LET newpc == Add32(PC(s), U32(JrDisp(opw)))
             op2 == ROPCODE(s, PC(s))
         IN  IF <<PC(s), opw>> \in s.trail THEN [s EXCEPT !.diverged = TRUE]
             ELSE Returned(Dispatch([SetCtrl(s, G_PC, newpc) EXCEPT
                                        !.taken = @ + 1,
                                        !.trail = @ \cup {<<PC(s), opw>>}],
                                    op2))
    ELSE s

\* a taken jump that folds the instruction at its target
jump_cc_rn_target(s, opw) ==
    IF CONDITION(s, OpDst(opw))
    THEN LET reg == OpSrc(opw)
             newpc == IF s.m_icount = s.m_bankswitch_icount
                      THEN s.m_a[reg] ELSE s.m_r[reg]
             op2 == ROPCODE(s, newpc)
         IN  IF <<PC(s), opw>> \in s.trail THEN [s EXCEPT !.diverged = TRUE]
             ELSE Returned(Dispatch([SetCtrl(s, G_PC, Add32(newpc, 2)) EXCEPT
                                        !.taken = @ + 1,
                                        !.trail = @ \cup {<<PC(s), opw>>}],
                                    op2))
    ELSE s

jump_cc_rn(s, opw) ==
    IF CONDITION(s, OpDst(opw))
    THEN LET reg == OpSrc(opw)
             \* special kludge for risky code in the cojag DSP interrupt handlers
             newpc == IF s.m_icount = s.m_bankswitch_icount
                      THEN s.m_a[reg] ELSE s.m_r[reg]
             op2 == ROPCODE(s, PC(s))
         IN  IF <<PC(s), opw>> \in s.trail THEN [s EXCEPT !.diverged = TRUE]
             ELSE Returned(Dispatch([SetCtrl(s, G_PC, newpc) EXCEPT
                                        !.taken = @ + 1,
                                        !.trail = @ \cup {<<PC(s), opw>>}],
                                    op2))
    ELSE s

\* (this->*m_table[op >> 10])(op)
Dispatch(s0, opw) ==
    LET h == m_table(s0)[OpIndex(opw) + 1]
        s == [s0 EXCEPT !.insns = @ + 1]
    IN  CASE h = "illegal" -> illegal(s, opw)
          [] h = "nop" -> nop(s, opw)
          [] h = "div_rn_rn" -> div_rn_rn(s, opw)
          [] h = "addc_rn_rn" -> addc_rn_rn(s, opw)
          [] h = "subc_rn_rn" -> subc_rn_rn(s, opw)
          [] h = "addqmod_n_rn" -> addqmod_n_rn(s, opw)
          [] h = "subqmod_n_rn" -> subqmod_n_rn(s, opw)
          [] h = "sh_rn_rn" -> sh_rn_rn(s, opw)
          [] h = "sha_rn_rn" -> sha_rn_rn(s, opw)
          [] h = "mmult_rn_rn" -> mmult_rn_rn(s, opw)
          [] h = "loadb_rn_rn" -> loadb_rn_rn(s, opw)
          [] h = "loadw_rn_rn" -> loadw_rn_rn(s, opw)
          [] h = "storeb_rn_rn" -> storeb_rn_rn(s, opw)
          [] h = "storew_rn_rn" -> storew_rn_rn(s, opw)
          [] h = "move_rn_rn" -> move_rn_rn(s, opw)
          [] h = "move_pc_rn" -> move_pc_rn(s, opw)
          [] h = "movefa_rn_rn" -> movefa_rn_rn(s, opw)
          [] h = "moveta_rn_rn" -> moveta_rn_rn(s, opw)
          [] h = "moveq_n_rn" -> moveq_n_rn(s, opw)
          [] h = "movei_n_rn" -> movei_n_rn(s, opw)
          [] h = "load_rn_rn" -> load_rn_rn(s, opw)
          [] h = "store_rn_rn" -> store_rn_rn(s, opw)
          [] h = "resmac_rn" -> resmac_rn(s, opw)
          [] h = "imacn_rn_rn" -> imacn_rn_rn(s, opw)
          [] h = "imultn_rn_rn" -> imultn_rn_rn(s, opw)
          [] h = "jr_cc_n" -> jr_cc_n(s, opw)
          [] h = "jump_cc_rn" -> jump_cc_rn(s, opw)
          [] h = "abs_rn" -> abs_rn(s, opw)
          [] h = "add_rn_rn" -> add_rn_rn(s, opw)
          [] h = "addq_n_rn" -> addq_n_rn(s, opw)
          [] h = "addqt_n_rn" -> addqt_n_rn(s, opw)
          [] h = "and_rn_rn" -> and_rn_rn(s, opw)
          [] h = "bclr_n_rn" -> bclr_n_rn(s, opw)
          [] h = "bset_n_rn" -> bset_n_rn(s, opw)
          [] h = "btst_n_rn" -> btst_n_rn(s, opw)
          [] h = "cmp_rn_rn" -> cmp_rn_rn(s, opw)
          [] h = "cmpq_n_rn" -> cmpq_n_rn(s, opw)
          [] h = "imult_rn_rn" -> imult_rn_rn(s, opw)
          [] h = "load_r14n_rn" -> load_r14n_rn(s, opw)
          [] h = "load_r15n_rn" -> load_r15n_rn(s, opw)
          [] h = "load_r14rn_rn" -> load_r14rn_rn(s, opw)
          [] h = "load_r15rn_rn" -> load_r15rn_rn(s, opw)
          [] h = "loadp_rn_rn" -> loadp_rn_rn(s, opw)
          [] h = "mirror_rn" -> mirror_rn(s, opw)
          [] h = "mtoi_rn_rn" -> mtoi_rn_rn(s, opw)
          [] h = "mult_rn_rn" -> mult_rn_rn(s, opw)
          [] h = "neg_rn" -> neg_rn(s, opw)
          [] h = "normi_rn_rn" -> normi_rn_rn(s, opw)
          [] h = "not_rn" -> not_rn(s, opw)
          [] h = "or_rn_rn" -> or_rn_rn(s, opw)
          [] h = "pack_rn" -> pack_rn(s, opw)
          [] h = "ror_rn_rn" -> ror_rn_rn(s, opw)
          [] h = "rorq_n_rn" -> rorq_n_rn(s, opw)
          [] h = "sat8_rn" -> sat8_rn(s, opw)
          [] h = "sat16_rn" -> sat16_rn(s, opw)
          [] h = "sat16s_rn" -> sat16s_rn(s, opw)
          [] h = "sat24_rn" -> sat24_rn(s, opw)
          [] h = "sat32s_rn" -> sat32s_rn(s, opw)
          [] h = "sharq_n_rn" -> sharq_n_rn(s, opw)
          [] h = "shlq_n_rn" -> shlq_n_rn(s, opw)
          [] h = "shrq_n_rn" -> shrq_n_rn(s, opw)
          [] h = "store_rn_r14n" -> store_rn_r14n(s, opw)
          [] h = "store_rn_r15n" -> store_rn_r15n(s, opw)
          [] h = "store_rn_r14rn" -> store_rn_r14rn(s, opw)
          [] h = "store_rn_r15rn" -> store_rn_r15rn(s, opw)
          [] h = "storep_rn_rn" -> storep_rn_rn(s, opw)
          [] h = "sub_rn_rn" -> sub_rn_rn(s, opw)
          [] h = "subq_n_rn" -> subq_n_rn(s, opw)
          [] h = "subqt_n_rn" -> subqt_n_rn(s, opw)
          [] h = "xor_rn_rn" -> xor_rn_rn(s, opw)

(***************************************************************************)
(* Bounds and inputs of the model                                          *)
(***************************************************************************)
\* execute_run is given budgets 1 .. MaxBudget
MaxBudget == 3

\* the host calls at most MaxOps operations
MaxOps == 4

Lines(isdsp) == IF isdsp THEN 0 .. 5 ELSE 0 .. 4

\* the enable and the clear bit of a line in the flags register
EnableBit(k) == IF k < 5 THEN EINT0FLAG * (2 ^ k) ELSE EINT5FLAG

ClearBit(k) == IF k < 5 THEN CINT0FLAG * (2 ^ k) ELSE CINT5FLAG

RECURSIVE SumOver(_, _)
SumOver(S, f) ==
    IF S = {} THEN 0
    ELSE LET x == CHOOSE y \in S : TRUE IN f[x] + SumOver(S \ {x}, f)

EnableBits(F) == SumOver(F, [k \in F |-> EnableBit(k)])

ClearBits(F) == SumOver(F, [k \in F |-> ClearBit(k)])

Lowest(F) == CHOOSE k \in F : \A j \in F : k <= j

\* values the host writes to the flags register: nothing; Z and every line
\* of the focus enabled; the lowest line enabled, page 1; an attempt to set
\* I, page 1; every line acknowledged, page 1
FlagsData(F) ==
    {ZFLAG + EnableBits(F), EnableBits({Lowest(F)}) + RPAGEFLAG,
     IFLAG + RPAGEFLAG + EnableBits(F), ClearBits(F) + RPAGEFLAG}

\* values the host writes to the control/status register under SpecPort:
\* run; run with the software interrupt request; run with bit 15
CtrlData == {1 + \h8000}

\* and under Spec: run; run with the request of the external interrupt;
\* run with the software interrupt request; run with both; halted with
\* line 0 pending
RunCtrlData == {1, 1 + 2, 1 + 4, 1 + 2 + 4, \h40}

PcData(isdsp) == {VectorBase(isdsp) + 20}

\* SpecWrite: the host calls at most MaxWrites operations
MaxWrites == 4

\* the lines the host drives under SpecWrite: the lowest and the highest
WriteLines(isdsp) == IF isdsp THEN {0, 5} ELSE {0, 4}

\* values and write masks of the flags writes under SpecWrite: every bit;
\* none; C, the page bit and the lines enabled; I and the lines
\* acknowledged; written whole, in the low half, in the high half
WriteFlagsData(F) ==
    {-1, 0, CFLAG + RPAGEFLAG + EnableBits(F), IFLAG + ClearBits(F)}

MaskData == {-1, \h0000ffff, -65536}

\* values written to the endian-select register: big-endian, anything else
EndData == {\h00070007, 2}

RunPcData(isdsp) == {VectorBase(isdsp), VectorBase(isdsp) + 20}

\* SpecOps: the host calls at most MaxCalls operations, gives execute_run
\* a budget of 1 or of MaxRun cycles, and loads a multiply-accumulate chain
\* of at most MaxChain imacn words
MaxCalls == 5

MaxRun == 8

MaxChain == 2

\* where the host loads the program under SpecOps: in internal RAM, above
\* the interrupt vectors
LoadBase(isdsp) == VectorBase(isdsp) + \h100

Movei(v, reg) == <<Op(38, 0, reg), Lo16(v), Hi16(v)>>

\* dividends: the example of the specification, zero, the largest, the
\* sign bit
DivData == {\h12345678, 0, -1, -2147483647 - 1}

\* r1 := x; r3 := r1; r2 := 7; r3 := r3 / r2 (leaves a remainder);
\* r1 := r1 / r4 with r4 = 0; nop
DivProgram(x) ==
    Movei(x, 1) \o <<Op(34, 1, 3), Op(35, 7, 2), Op(21, 2, 3), Op(21, 4, 1),
                     Op(57, 0, 0)>>

\* operand pairs of the chain: the most negative 16-bit value squared
\* under garbage in the high halves, mixed signs, small values
ChainData == {<<\h12348000, \h00008000>>, <<\h00007FFF, -1>>, <<3, 5>>}

\* the imacn words of a chain of k: r1*r1, r2*r2, r1*r2, ...
ImacnWords(k) ==
    [i \in 1 .. k |-> IF i % 3 = 1 THEN Op(20, 1, 1)
                      ELSE IF i % 3 = 2 THEN Op(20, 2, 2) ELSE Op(20, 1, 2)]

\* r1 := a; r2 := b; imultn r1,r2; k imacn words; resmac r5; nop
ChainProgram(ab, k) ==
    Movei(ab[1], 1) \o Movei(ab[2], 2) \o <<Op(18, 1, 2)>> \o ImacnWords(k)
    \o <<Op(19, 0, 5), Op(57, 0, 0)>>

\* addresses of the byte and word accesses: inside internal RAM (odd, and
\* its last byte), just outside at both ends, in main memory, in the
\* control-register port (the endian-select register), and an address with
\* bits above bit 23 that the 24-bit address space maps into internal RAM
MemData(isdsp) ==
    {InternalRamStart(isdsp) + \h201, InternalRamEnd(isdsp),
     InternalRamStart(isdsp) - 1, InternalRamEnd(isdsp) + 1, \h4002,
     CtrlPortBase(isdsp) + 13, \h01000000 + InternalRamStart(isdsp) + \h202}

\* the value stored: 0xA1B2C3D4
StorePattern == Join16(\hA1B2, \hC3D4)

\* r1 := a; r2 := the pattern; storeb r2,(r1); loadb (r1),r3; storew r2,(r1);
\* loadw (r1),r4; nop
MemProgram(a) ==
    Movei(a, 1) \o Movei(StorePattern, 2)
    \o <<Op(45, 1, 2), Op(39, 1, 3), Op(46, 1, 2), Op(40, 1, 4), Op(57, 0, 0)>>

\* r1 := the pattern; a'r1 := r1; imultn r1,r1 (the accumulator set);
\* nop with operand bits; opcode 62 (illegal on the DSP) with operand bits;
\* nop
IdleProgram ==
    Movei(StorePattern, 1)
    \o <<Op(36, 1, 1), Op(18, 1, 1), Op(57, 3, 4), Op(62, 5, 6), Op(57, 0, 0)>>

\* condition codes of the branches: always, Z set, Z clear
BranchData == {0, 2, 1}

\* jr cc,+2 words; moveq #5,r2 (the word after the branch); moveq #7,r3
\* (skipped when taken); moveq #9,r4 (the target); nop
JrProgram(cc) ==
    <<Op(53, 2, cc), Op(35, 5, 2), Op(35, 7, 3), Op(35, 9, 4), Op(57, 0, 0)>>

\* r7 := the address of the seventh word; jump cc,(r7); moveq #5,r2 (the
\* word after the branch); moveq #7,r3; moveq #9,r4 (the target); nop
JumpProgram(isdsp, cc) ==
    Movei(LoadBase(isdsp) + 12, 7)
    \o <<Op(52, 7, cc), Op(35, 5, 2), Op(35, 7, 3), Op(35, 9, 4), Op(57, 0, 0)>>

\* r1 := the flags port; r2 := RPAGEFLAG; r7 := the address of the last
\* word (register 7 of the other bank stays 0)
SwapSetup(isdsp, last) ==
    Movei(CtrlPortBase(isdsp), 1) \o Movei(RPAGEFLAG, 2)
    \o Movei(LoadBase(isdsp) + 2 * (last - 1), 7)

\* the setup; store r2,(r1) (swaps the banks); gap nops; jump (r7); nop;
\* nop (the last word)
SwapJumpProgram(isdsp, gap) ==
    SwapSetup(isdsp, 13 + gap) \o <<Op(47, 1, 2)>> \o [i \in 1 .. gap |-> NOP]
    \o <<Op(52, 7, 0), NOP, NOP>>

\* the setup; jr +1 word with the swapping store r2,(r1) as the word after
\* it; jump (r7) at the target of the jr; nop; nop (the last word)
SlotSwapProgram(isdsp) ==
    SwapSetup(isdsp, 14) \o <<Op(53, 1, 0), Op(47, 1, 2), Op(52, 7, 0), NOP, NOP>>

\* nops between the swapping store and the jump
GapData == {0, 1}

Programs(isdsp) ==
    {DivProgram(x) : x \in DivData}
    \cup {IdleProgram}
    \cup {SwapJumpProgram(isdsp, gap) : gap \in GapData}
    \cup {SlotSwapProgram(isdsp)}
    \cup {JrProgram(cc) : cc \in BranchData}
    \cup {JumpProgram(isdsp, cc) : cc \in BranchData}
    \cup {ChainProgram(ab, k) : ab \in ChainData, k \in 0 .. MaxChain}
    \cup {MemProgram(a) : a \in MemData(isdsp)}

\* the memory cells holding program prog loaded at base
Loaded(prog, base) ==
    [x \in {base + 2 * (i - 1) : i \in 1 .. Len(prog)} |->
        prog[((x - base) \div 2) + 1]]

\* flags the host sets before the run under SpecOps
OpsFlagsData == {ZFLAG + CFLAG, NFLAG}

(***************************************************************************)
(* Operations                                                              *)
(***************************************************************************)
Idle == [budget |-> 0, iters |-> 0, extra |-> 0, swaps |-> 0, swapped |-> 0,
         taken |-> 0,
         jumps |-> 0, chains |-> 0, diverged |-> FALSE]

\* the next state is s; the last operation was name(a)
Commit(s0, name, a) ==
    \E s \in {s0} :
    /\ m_isdsp' = s.m_isdsp
    /\ m_r' = s.m_r
    /\ m_a' = s.m_a
    /\ m_b0' = s.m_b0
    /\ m_b1' = s.m_b1
    /\ m_ctrl' = s.m_ctrl
    /\ m_icount' = s.m_icount
    /\ m_bankswitch_icount' = s.m_bankswitch_icount
    /\ m_ppc' = s.m_ppc
    /\ m_accum' = s.m_accum
    /\ mem' = s.mem
    /\ irqs' = s.irqs
    /\ op' = name
    /\ host' = [cpu_interrupt |-> s.cpu_interrupt, halt |-> s.halt,
                yields |-> s.yields, access |-> s.access,
                observed |-> s.observed]
    /\ focus' = focus
    /\ UNCHANGED <<instances, tables>>

Zeros == [i \in Regs |-> 0]

\* SpecLife: at most MaxInstances instances exist at a time and the machine
\* makes at most MaxLife constructions, starts and destructions
MaxInstances == 3

MaxLife == 5

Instances == 1 .. MaxInstances

\* no instance, and an instance as its constructor leaves it:
\* m_tables_referenced(false), table_refcount(0)
Absent ==
    [constructed |-> FALSE, m_tables_referenced |-> FALSE, table_refcount |-> 0]

Constructed ==
    [constructed |-> TRUE, m_tables_referenced |-> FALSE, table_refcount |-> 0]

\* mirror_table and condition_table before any instance has started; the
\* two tables are shared by all instances
NoTables ==
    [mirror_table |-> "nullptr", condition_table |-> "nullptr", builds |-> 0]

\* init_tables of instance i; L holds the instances and the tables
init_tables(L, i) ==
    IF L.instances[i].table_refcount # 0
    THEN [L EXCEPT !.instances[i].m_tables_referenced = TRUE,
                   !.instances[i].table_refcount = @ + 1]
    ELSE [L EXCEPT !.instances[i].m_tables_referenced = TRUE,
                   !.instances[i].table_refcount = @ + 1,
                   !.tables.mirror_table = "built",
                   !.tables.condition_table = "built",
                   !.tables.builds = @ + 1]

\* ~jaguar_cpu_device of instance i, after which the instance is gone
destructor(L, i) ==
    IF ~L.instances[i].m_tables_referenced
    THEN [L EXCEPT !.instances[i] = Absent]
    ELSE IF L.instances[i].table_refcount - 1 # 0
    THEN [L EXCEPT !.instances[i] = Absent]
    ELSE [L EXCEPT !.instances[i] = Absent,
                   !.tables.mirror_table = "nullptr",
                   !.tables.condition_table = "nullptr"]

\* the instances and the tables
Life == [instances |-> instances, tables |-> tables]

\* the instance the other specifications follow is instance 1, constructed
\* and started; no other instance exists
OneStarted ==
    init_tables([instances |-> [i \in Instances |->
                                   IF i = 1 THEN Constructed ELSE Absent],
                 tables |-> NoTables], 1)

\* device_start followed by the machine's first device_reset
Started ==
    /\ instances = OneStarted.instances
    /\ tables = OneStarted.tables
    /\ m_isdsp \in BOOLEAN
    /\ m_r = Zeros
    /\ m_a = Zeros
    /\ m_b0 = "m_r"
    /\ m_b1 = "m_a"
    /\ m_ctrl = [c \in CtrlRegs |-> 0]
    /\ m_icount = 0
    /\ m_bankswitch_icount = 0
    /\ m_ppc = 0
    /\ m_accum = Acc(0)
    /\ mem = [x \in {} |-> 0]
    /\ running = FALSE
    /\ irqs = 0
    /\ run = Idle
    /\ op = "device_start"
    /\ ops = 0
    /\ host = NoCalls

Init == Started /\ focus = {0, 2}

InitPort ==
    /\ Started
    /\ focus \in {F \in SUBSET Lines(m_isdsp) : Cardinality(F) = 2}

SetLine(irqline, state) ==
    /\ ~running
    /\ Commit(execute_set_input(Cur, irqline, state), "execute_set_input", irqline)
    /\ run' = Idle
    /\ UNCHANGED running

CtrlWrite(offset, data, mem_mask) ==
    /\ ~running
    /\ Commit(ctrl_w(Cur, offset, data, mem_mask), "ctrl_w", offset)
    /\ run' = Idle
    /\ UNCHANGED running

DeviceReset ==
    /\ ~running
    /\ Commit(device_reset(Cur), "device_reset", 0)
    /\ run' = Idle
    /\ UNCHANGED running

\* A save state taken now and loaded into a freshly started and reset
\* instance: m_r, m_a, m_ctrl and m_ppc are the saved items (the memory is
\* the memory system's), everything else is as device_start and
\* device_reset leave it; then device_post_load runs.
Restored(s) ==
    [s EXCEPT !.m_b0 = "m_r", !.m_b1 = "m_a", !.m_icount = 0,
              !.m_bankswitch_icount = 0, !.m_accum = Acc(0)]

SaveRestore ==
    /\ ~running
    /\ Commit(device_post_load(Restored(Cur)), "device_post_load", 0)
    /\ run' = Idle
    /\ UNCHANGED running

\* the interrupt check made before the test of the run bit
execute_run_entry_check_first(s) ==
    IF ~Test(s.m_ctrl[G_CTRL], 1)
    THEN [check_irqs(s) EXCEPT !.m_icount = 0]
    ELSE [check_irqs(s) EXCEPT !.m_bankswitch_icount = -1000]

\* execute_run up to the do-while loop; the scheduler has put the budget in
\* m_icount
execute_run_entry(s) ==
    IF ~Test(s.m_ctrl[G_CTRL], 1)
    THEN [s EXCEPT !.m_icount = 0]
    ELSE [check_irqs(s) EXCEPT !.m_bankswitch_icount = -1000]

\* whether the opcode fetch at s's PC is one the model executes
CanStep(s) ==
    /\ InImage(s.m_isdsp, Addr24(PC(s))) \/ Cell(PC(s)) \in DOMAIN s.mem
    /\ m_table(s)[OpIndex(ROPCODE(s, PC(s))) + 1] \in Modelled

ExecuteRun(budget) ==
    /\ ~running
    /\ LET s == execute_run_entry([Cur EXCEPT !.m_icount = budget])
           halted == ~Test(m_ctrl[G_CTRL], 1)
       IN  /\ Commit(s, "execute_run", budget)
           /\ running' = ~halted
           /\ run' = IF halted THEN Idle ELSE [Idle EXCEPT !.budget = budget]

\* m_icount--, once the handler has returned
Counted(s2) == IF s2.diverged THEN s2 ELSE [s2 EXCEPT !.m_icount = @ - 1]

\* one iteration of the do-while loop
run_iteration(s) ==
    LET s1 == [s EXCEPT !.m_ppc = PC(s)]
        opw == ROPCODE(s1, PC(s1))
    IN  Counted(Dispatch(SetCtrl(s1, G_PC, Add32(PC(s1), 2)), opw))

\* the loop condition without the bank-switch sentinel
LoopAgain_budget_only(s) == s.m_icount > 0

\* while (m_icount > 0 || m_icount == m_bankswitch_icount)
LoopAgain(s) == s.m_icount > 0 \/ s.m_icount = s.m_bankswitch_icount

\* the handlers with an operation the language leaves undefined for some
\* operands
WildOps == {"shrq_n_rn", "sharq_n_rn", "mmult_rn_rn"}

\* what the machine may make of it
WildData == {0, -1}

\* the outcomes to consider for the instruction at s's PC and the ones it
\* may fold
WildChoices(s) ==
    IF \E k \in 0 .. 2 :
           m_table(s)[OpIndex(ROPCODE(s, Add32(PC(s), 2 * k))) + 1] \in WildOps
    THEN WildData ELSE {0}

RunStep ==
    /\ running
    /\ ~run.diverged
    /\ CanStep(Cur)
    /\ \E wild \in WildChoices(Cur) :
       \E s \in {run_iteration([Cur EXCEPT !.wild = wild])} :
           /\ Commit(s, "run_iteration", 0)
           /\ running' = (s.diverged \/ LoopAgain(s))
           /\ run' = [run EXCEPT !.iters = @ + 1,
                                 !.diverged = s.diverged,
                                 !.extra = @ + (IF m_icount <= 0 THEN 1 ELSE 0),
                                 !.swaps = @ + s.swaps,
                                 !.swapped = s.swaps,
                                 !.taken = s.taken,
                                 !.jumps = @ + s.taken,
                                 !.chains = @ + (IF s.chain > 0 THEN 1 ELSE 0)]
    /\ UNCHANGED ops

\* one more operation called by the host
Called == ops < MaxOps /\ ops' = ops + 1

Next ==
    \/ \E irqline \in focus, state \in {CLEAR_LINE, ASSERT_LINE} :
           SetLine(irqline, state) /\ Called
    \/ \E data \in FlagsData(focus) : CtrlWrite(G_FLAGS, data, -1) /\ Called
    \/ \E data \in RunCtrlData : CtrlWrite(G_CTRL, data, -1) /\ Called
    \/ \E data \in RunPcData(m_isdsp) : CtrlWrite(G_PC, data, -1) /\ Called
    \/ DeviceReset /\ Called
    \/ SaveRestore /\ Called
    \/ \E budget \in 1 .. MaxBudget : ExecuteRun(budget) /\ Called
    \/ RunStep

Spec == Init /\ [][Next]_vars

NextPort ==
    \/ \E irqline \in focus, state \in {CLEAR_LINE, ASSERT_LINE} :
           SetLine(irqline, state) /\ Called
    \/ \E data \in FlagsData(focus) :
           CtrlWrite(G_FLAGS, data, -1) /\ Called
    \/ \E data \in CtrlData : CtrlWrite(G_CTRL, data, -1) /\ Called
    \/ \E data \in PcData(m_isdsp) : CtrlWrite(G_PC, data, -1) /\ Called
    \/ DeviceReset /\ Called
    \/ SaveRestore /\ Called

SpecPort == InitPort /\ [][NextPort]_vars

\* The control-register port written with every write mask, the
\* endian-select register and an offset ctrl_w has no case for included.
InitWrite == Started /\ focus = WriteLines(m_isdsp)

Written == ops < MaxWrites /\ ops' = ops + 1

NextWrite ==
    \/ \E irqline \in focus : SetLine(irqline, ASSERT_LINE) /\ Written
    \/ \E data \in WriteFlagsData(focus), mem_mask \in MaskData :
           CtrlWrite(G_FLAGS, data, mem_mask) /\ Written
    \/ \E data \in EndData : CtrlWrite(G_END, data, -1) /\ Written
    \/ \E data \in EndData : CtrlWrite(D_REMAINDER, data, -1) /\ Written
    \/ DeviceReset /\ Written

SpecWrite == InitWrite /\ [][NextWrite]_vars

\* A program loaded by the host into internal RAM and run: the divide, the
\* multiply-accumulate chain, and the byte and word loads and stores.
InitOps ==
    /\ instances = OneStarted.instances
    /\ tables = OneStarted.tables
    /\ m_isdsp \in BOOLEAN
    /\ m_r = Zeros
    /\ m_a = Zeros
    /\ m_b0 = "m_r"
    /\ m_b1 = "m_a"
    /\ m_ctrl = [c \in CtrlRegs |-> 0]
    /\ m_icount = 0
    /\ m_bankswitch_icount = 0
    /\ m_ppc = 0
    /\ m_accum = Acc(0)
    /\ \E prog \in Programs(m_isdsp) : mem = Loaded(prog, LoadBase(m_isdsp))
    /\ running = FALSE
    /\ irqs = 0
    /\ run = Idle
    /\ op = "device_start"
    /\ ops = 0
    /\ host = NoCalls
    /\ focus = {}

CalledOps == ops < MaxCalls /\ ops' = ops + 1

NextOps ==
    \/ CtrlWrite(G_PC, LoadBase(m_isdsp), -1) /\ CalledOps
    \/ \E data \in {0, 1} : CtrlWrite(G_DIVCTRL, data, -1) /\ CalledOps
    \/ \E data \in OpsFlagsData : CtrlWrite(G_FLAGS, data, -1) /\ CalledOps
    \/ CtrlWrite(G_CTRL, 1, -1) /\ CalledOps
    \/ \E budget \in {1, MaxRun} : ExecuteRun(budget) /\ CalledOps
    \/ RunStep

SpecOps == InitOps /\ [][NextOps]_vars

\* One instruction on operands drawn from bounded sets: the machine starts
\* with the run bit set, the PC at the instruction, the operands in the
\* registers and control registers, and the banks as the page bit of the
\* flags selects them.
MatrixBase(isdsp) == LoadBase(isdsp) + \h40

\* operands of addc and subc
CarryData == {0, 1, -1, \h7FFFFFFF, -2147483647 - 1}

\* shift counts and shifted values of sh and sha
ShiftCounts ==
    {0, 1, 31, 32, 33, -1, -31, -32, -33, \h7FFFFFFF, -2147483647 - 1}

ShiftValues == {0, 1, -1, -2147483647 - 1, \h40000001}

\* values and modulo masks of addqmod and subqmod; quick values 1, 32, 31
ModValues == {\hFFFE, \h12345678, -1, 0}

ModMasks == {0, -65536, -16, -1, \hFF00}

ModQuicks == {1, 0, 31}

\* the matrix in memory: the most negative word throughout, mixed words
MatrixData ==
    {[i \in 1 .. 32 |-> \h8000], [i \in 1 .. 32 |-> (i * 9973) % 65536]}

\* registers 4..11 of a bank: the most negative halves, mixed halves
MatrixRegs ==
    {[i \in Regs |-> IF i \in 4 .. 11 THEN Join16(\h8000, \h8000) ELSE 0],
     [i \in Regs |-> IF i \in 4 .. 11 THEN Join16(i * 1000 + 1, 65536 - i)
                     ELSE 0]}

\* the contents of m_r and m_a: different
MatrixBanks == {ra \in MatrixRegs \X MatrixRegs : ra[1] # ra[2]}

\* matrix control: 0, 1, 2, 3, 15 terms, contiguous and strided
MtxcData == {n + mode : n \in {0, 1, 2, 3, 15}, mode \in {0, 16}}

\* the opcodes that differ between the variants, their operands, and the
\* words they load
VariantOps == {32, 33, 42, 48, 62, 63}

VariantValues == {\h12345678, -1, \hFFFE, 0}

VariantMatrix == [i \in 1 .. 32 |-> (i * 9973) % 65536]

\* taken branches with a taken branch in the delay slot: jr T,+2 twice
\* ahead of moveq #5,r2; jr T,0 twice; jr T,-2 ahead of jr T,0; jump T,(r1)
\* twice, r1 holding the address of the second
NestPrograms ==
    {<<Op(53, 1, 0), Op(53, 1, 0), Op(35, 5, 2), NOP, NOP>>,
     <<Op(53, 0, 0), Op(53, 0, 0), NOP>>,
     <<Op(53, 31, 0), Op(53, 0, 0), NOP>>,
     <<Op(52, 1, 0), Op(52, 1, 0), NOP>>}

\* source registers of mmult near the end of the bank, and the registers
\* from 24 on
EdgeSources == {24, 31}

EdgeRegs == [i \in Regs |-> IF i >= 24 THEN Join16(i, 65536 - i) ELSE 0]

\* move pc,r2 on its own, behind a nop, and in the delay slot of jr T,+4
\* and of jump T,(r1)
MovePcPrograms ==
    {<<Op(51, 0, 2), NOP, NOP>>,
     <<NOP, Op(51, 0, 2), NOP, NOP>>,
     <<Op(53, 2, 0), Op(51, 0, 2), NOP, NOP, NOP>>,
     <<Op(52, 1, 0), Op(51, 0, 2), NOP, NOP, NOP>>}

\* jr cc,+2 and jump cc,(r1) for every condition code, on every state of
\* Z, C, N, with the other flags clear and with enable and DMA bits set
CondCodes == 0 .. 31

CondFlags == {zcn + high : zcn \in 0 .. 7, high \in {0, EINT04FLAGS + DMAFLAG}}

CondPrograms ==
    {<<Op(o, 1, cc), NOP, NOP, NOP>> : o \in {52, 53}, cc \in CondCodes}

\* every opcode once, with register 1, 14 and 15 pointing at the loaded
\* words, on flags whose bits from 3 on are set: with I and the enable
\* bits, and with the page bit
AllOps == 0 .. 63

OpValues == {\h12345678, -1, 0}

HighFlagsData ==
    {IFLAG + EINT04FLAGS + DMAFLAG + EINT5FLAG + ZFLAG + CFLAG + NFLAG,
     RPAGEFLAG + EINT0FLAG}

AluCase(prog, r, a, flags, mtxc, mod, matrix) ==
    [prog |-> prog, r |-> r, a |-> a, flags |-> flags, mtxc |-> mtxc,
     mod |-> mod, matrix |-> matrix]

\* addc r1,r2 and subc r1,r2; sh r1,r2 and sha r1,r2; on the DSP addqmod
\* #n,r2 and subqmod #n,r2; mmult r4,r2 with different contents in the
\* two banks, bank 0 or bank 1 active; jr T with a variant-specific
\* instruction in its delay slot; mmult r24,r2 and mmult r31,r2; move
\* pc,r2 fetched by the loop and folded by a branch; taken branches nested
\* in delay slots; every opcode on flags with the bits from 3 on set
AluCases(isdsp) ==
    {AluCase(<<Op(o, 1, 2), NOP, NOP>>, [Zeros EXCEPT ![1] = x, ![2] = y],
             Zeros, f, 0, 0, <<>>) :
        o \in {1, 5}, x \in CarryData, y \in CarryData, f \in {0, CFLAG}}
    \cup
    {AluCase(<<Op(o, 1, 2), NOP, NOP>>, [Zeros EXCEPT ![1] = x, ![2] = y],
             Zeros, 0, 0, 0, <<>>) :
        o \in {23, 26}, x \in ShiftCounts, y \in ShiftValues}
    \cup
    {AluCase(<<Op(o, n, 2), NOP, NOP>>, [Zeros EXCEPT ![2] = y],
             Zeros, 0, 0, mod, <<>>) :
        o \in (IF isdsp THEN {63, 32} ELSE {}), n \in ModQuicks,
        y \in ModValues, mod \in ModMasks}
    \cup
    {AluCase(<<Op(54, 4, 2), NOP, NOP>>, ra[1], ra[2], f, mtxc, 0, matrix) :
        ra \in MatrixBanks, f \in {0, RPAGEFLAG},
        mtxc \in MtxcData, matrix \in MatrixData}
    \cup
    {AluCase(<<Op(53, 2, 0), Op(o, 1, 2), NOP, NOP, NOP>>,
             [Zeros EXCEPT ![1] = MatrixBase(isdsp), ![2] = y],
             Zeros, 0, 0, 0, VariantMatrix) :
        o \in VariantOps, y \in VariantValues}
    \cup
    {AluCase(<<Op(54, sr, 2), NOP, NOP>>, EdgeRegs, EdgeRegs, f, mtxc, 0,
             VariantMatrix) :
        sr \in EdgeSources, f \in {0, RPAGEFLAG}, mtxc \in MtxcData}
    \cup
    {AluCase(prog, [Zeros EXCEPT ![1] = LoadBase(isdsp) + 4], Zeros, f, 0, 0,
             VariantMatrix) :
        prog \in CondPrograms, f \in CondFlags}
    \cup
    {AluCase(<<Op(o, 1, 2), NOP, NOP>>,
             [Zeros EXCEPT ![1] = MatrixBase(isdsp), ![2] = y,
                           ![14] = MatrixBase(isdsp), ![15] = MatrixBase(isdsp)],
             [Zeros EXCEPT ![1] = MatrixBase(isdsp)], f, 0, 0, VariantMatrix) :
        o \in AllOps, y \in OpValues, f \in HighFlagsData}
    \cup
    {AluCase(prog, [Zeros EXCEPT ![1] = LoadBase(isdsp) + 6], Zeros, 0, 0, 0,
             <<>>) :
        prog \in MovePcPrograms}
    \cup
    {AluCase(prog, [Zeros EXCEPT ![1] = LoadBase(isdsp) + 2], Zeros, f, 0, 0,
             <<>>) :
        prog \in NestPrograms, f \in {0, ZFLAG + CFLAG + NFLAG}}

InitAlu ==
    /\ instances = OneStarted.instances
    /\ tables = OneStarted.tables
    /\ m_isdsp \in BOOLEAN
    /\ \E c \in AluCases(m_isdsp) :
           /\ m_r = c.r
           /\ m_a = c.a
           /\ m_b0 = (IF Test(c.flags, RPAGEFLAG) THEN "m_a" ELSE "m_r")
           /\ m_b1 = (IF Test(c.flags, RPAGEFLAG) THEN "m_r" ELSE "m_a")
           /\ m_ctrl = [reg \in CtrlRegs |->
                          CASE reg = G_FLAGS -> c.flags
                            [] reg = G_MTXC -> c.mtxc
                            [] reg = G_MTXA -> MatrixBase(m_isdsp)
                            [] reg = D_MOD -> c.mod
                            [] reg = G_PC -> LoadBase(m_isdsp)
                            [] reg = G_CTRL -> 1
                            [] OTHER -> 0]
           /\ mem = Loaded(c.prog, LoadBase(m_isdsp))
                    @@ Loaded(c.matrix, MatrixBase(m_isdsp))
    /\ m_icount = 0
    /\ m_bankswitch_icount = 0
    /\ m_ppc = 0
    /\ m_accum = Acc(0)
    /\ running = FALSE
    /\ irqs = 0
    /\ run = Idle
    /\ op = "device_start"
    /\ ops = 0
    /\ host = NoCalls
    /\ focus = {}

NextAlu ==
    \/ \E budget \in 1 .. MaxBudget : ExecuteRun(budget) /\ CalledOps
    \/ RunStep

SpecAlu == InitAlu /\ [][NextAlu]_vars

\* Instances constructed, started and destroyed in any order.  An instance
\* is started at most once; a destroyed instance is gone and its slot can
\* hold a new one.
InitLife ==
    /\ instances = [i \in Instances |-> Absent]
    /\ tables = NoTables
    /\ m_isdsp \in BOOLEAN
    /\ m_r = Zeros
    /\ m_a = Zeros
    /\ m_b0 = "m_r"
    /\ m_b1 = "m_a"
    /\ m_ctrl = [c \in CtrlRegs |-> 0]
    /\ m_icount = 0
    /\ m_bankswitch_icount = 0
    /\ m_ppc = 0
    /\ m_accum = Acc(0)
    /\ mem = [x \in {} |-> 0]
    /\ running = FALSE
    /\ irqs = 0
    /\ run = Idle
    /\ op = "none"
    /\ ops = 0
    /\ host = NoCalls
    /\ focus = {}

\* the life of the instances is L after operation name of instance i
CommitLife(L, name, i) ==
    /\ ops < MaxLife
    /\ ops' = ops + 1
    /\ instances' = L.instances
    /\ tables' = L.tables
    /\ op' = name
    /\ UNCHANGED <<m_isdsp, m_r, m_a, m_b0, m_b1, m_ctrl, m_icount,
                   m_bankswitch_icount, m_ppc, m_accum, mem, running, irqs,
                   run, host, focus>>

Construct(i) ==
    /\ ~instances[i].constructed
    /\ CommitLife([Life EXCEPT !.instances[i] = Constructed], "constructor", i)

DeviceStart(i) ==
    /\ instances[i].constructed
    /\ ~instances[i].m_tables_referenced
    /\ CommitLife(init_tables(Life, i), "device_start", i)

Destroy(i) ==
    /\ instances[i].constructed
    /\ CommitLife(destructor(Life, i), "destructor", i)

NextLife ==
    \/ \E i \in Instances : Construct(i)
    \/ \E i \in Instances : DeviceStart(i)
    \/ \E i \in Instances : Destroy(i)

SpecLife == InitLife /\ [][NextLife]_vars

(***************************************************************************)
(* Vocabulary of the properties                                            *)
(***************************************************************************)
\* the interrupt-mask flag I (FLAGS bit 3) and the page bit (FLAGS bit 14)
ISet == Test(m_ctrl[G_FLAGS], IFLAG)

PageSet == Test(m_ctrl[G_FLAGS], RPAGEFLAG)

\* bank 0 is the bank visible as the general registers m_r
Bank0Active == m_b0 = "m_r"

\* line k is pending: the control-register bit set_line sets for it
Pending(k) == Test(m_ctrl[G_CTRL], IF k < 5 THEN \h40 * (2 ^ k) ELSE \h10000)

\* line k is enabled: its enable bit in the flags
Enabled(k) == Test(m_ctrl[G_FLAGS], EnableBit(k))

PendingEnabled == {k \in Lines(m_isdsp) : Pending(k) /\ Enabled(k)}

Highest(S) == CHOOSE k \in S : \A j \in S : j <= k

\* register 31 of bank 0
Bank0R31 == IF m_b0 = "m_r" THEN m_r[31] ELSE m_a[31]

\* the long word at address a of the memory whose written cells are m
LongAt(m, a) == READLONG([m_isdsp |-> m_isdsp, mem |-> m], a)

\* the opcode word at address a of the present memory, and the word the
\* next iteration of the run loop fetches
WordAt(a) == ROPCODE([m_isdsp |-> m_isdsp, mem |-> mem], a)

Fetched == WordAt(m_ctrl[G_PC])

(***************************************************************************)
(* Properties                                                              *)
(***************************************************************************)
\* C1: in every reachable state, if the interrupt-mask flag I is set then
\* bank 0 is the active bank, whatever the value of the page bit.
C1_IForcesBank0 == ISet => Bank0Active

\* I set and the page bit set, after a flags write that kept I
C1_Witness == ISet /\ PageSet /\ Bank0Active /\ op = "ctrl_w"

\* C2: after every completed operation the active bank is the one the
\* flags select: bank 0 is active if and only if I is set or the page bit
\* is clear (and bank 1 otherwise), also after a reset issued while the
\* page bit is set.
C2_BankFollowsFlags == ~running => (Bank0Active <=> (ISet \/ ~PageSet))

\* C3: a save state (m_r, m_a, m_ctrl, m_ppc) loaded into a freshly reset
\* instance and followed by post-load gives back the registers of the
\* active bank, those of the alternate bank, the flags and the PC of the
\* saved state (stated for the loads in which post-load's interrupt check
\* dispatches nothing).
C3_RoundTrip ==
    [][(op' = "device_post_load" /\ irqs' = irqs)
       => /\ m_r' = m_r
          /\ m_a' = m_a
          /\ m_ctrl'[G_FLAGS] = m_ctrl[G_FLAGS]
          /\ m_ctrl'[G_PC] = m_ctrl[G_PC]]_vars

\* C4: after a reset all registers of both banks and all control registers
\* are zero and bank 0 is the active bank.
C4_ResetZeroes ==
    op = "device_reset"
    => /\ m_r = Zeros
       /\ m_a = Zeros
       /\ m_ctrl = [c \in CtrlRegs |-> 0]
       /\ Bank0Active

\* C5: execute_run called while the run bit is clear returns at once: the
\* loop is not entered, no interrupt is dispatched, and the control
\* registers (PC, flags), m_ppc, both banks, the accumulator and the memory
\* are unchanged, in both variants.
C5_HaltedRunReturns ==
    [][(op' = "execute_run" /\ ~Test(m_ctrl[G_CTRL], 1))
       => /\ ~running'
          /\ irqs' = irqs
          /\ UNCHANGED <<m_ctrl, m_ppc, m_r, m_a, m_b0, m_b1, m_accum, mem>>]_vars

\* a halted run returned although an enabled line was pending with I clear
C5_Witness ==
    /\ op = "execute_run"
    /\ ~Test(m_ctrl[G_CTRL], 1)
    /\ ~ISet
    /\ PendingEnabled # {}
    /\ ops >= 3

C7_BudgetAccounting ==
    [][op' = "run_iteration"
       => /\ m_icount' = m_icount - 1 - 3 * run'.taken
          /\ (~running' /\ run'.jumps = 0 /\ run'.swaps = 0)
             => (run'.iters = run'.budget /\ m_icount' = 0)]_vars

\* a finished run that took a branch at a cost of 3 and executed a
\* multiply-accumulate chain
C7_Witness ==
    /\ op = "run_iteration"
    /\ ~running
    /\ run.jumps >= 1
    /\ run.chains >= 1
    /\ m_icount < 0

\* C8: for every line k in 0..4, if I is clear, line k is enabled and no
\* higher-numbered line is both pending and enabled, then asserting line k
\* with set_line leaves I set, bank 0 active, PC at the variant's vector
\* base plus k*0x10, register 31 of bank 0 decreased by 4 and, at the
\* address it then holds, the long word PC-2 of the PC before the call.
C8_Dispatch ==
    [][\A k \in 0 .. 4 :
         (/\ ~ISet
          /\ Enabled(k)
          /\ \A j \in Lines(m_isdsp) : j > k => ~(Pending(j) /\ Enabled(j))
          /\ SetLine(k, ASSERT_LINE))
         => /\ ISet'
            /\ Bank0Active'
            /\ m_ctrl'[G_PC] = VectorBase(m_isdsp) + k * 16
            /\ m_r'[31] = Sub32(Bank0R31, 4)
            /\ LongAt(mem', m_r'[31]) = Sub32(m_ctrl[G_PC], 2)]_vars

\* the unchanged part of the state when an interrupt check is skipped
NoDispatch ==
    /\ irqs' = irqs
    /\ UNCHANGED <<m_r, m_a, mem, m_b0, m_b1>>
    /\ m_ctrl'[G_PC] = m_ctrl[G_PC]

\* C9: while I is set the interrupt check does nothing: made by set_line,
\* by the entry of execute_run, by post-load or by a control/status write
\* it changes neither PC, register 31, the memory, the flags nor the active
\* bank, and made by a flags write that keeps I it dispatches nothing.
C9_NoNesting ==
    [][ISet
       => /\ op' \in {"execute_set_input", "execute_run", "device_post_load"}
             => (NoDispatch /\ m_ctrl'[G_FLAGS] = m_ctrl[G_FLAGS])
          /\ (\E data \in RunCtrlData : CtrlWrite(G_CTRL, data, -1))
             => (NoDispatch /\ m_ctrl'[G_FLAGS] = m_ctrl[G_FLAGS])
          /\ (\E data \in FlagsData(focus) :
                  Test(data, IFLAG) /\ CtrlWrite(G_FLAGS, data, -1))
             => (NoDispatch /\ ISet')]_vars

\* line 2 became pending while enabled and I was set by the dispatch of
\* line 0: set_line's check did nothing
C9_Witness ==
    /\ op = "execute_set_input"
    /\ ISet
    /\ irqs = 1
    /\ Pending(2) /\ Enabled(2)
    /\ m_ctrl[G_PC] = VectorBase(m_isdsp)

\* C10: when several lines are pending and enabled and I is clear, the
\* interrupt check dispatches to the vector of the highest-numbered of
\* them.  (A dispatch changes neither the pending nor the enable bits, so
\* they are read after the operation whose check dispatched.)
C10_HighestWins ==
    [][(/\ irqs' = irqs + 1
        /\ op' \in {"execute_set_input", "ctrl_w", "device_post_load"}
        /\ Cardinality(PendingEnabled') >= 2)
       => m_ctrl'[G_PC] = VectorBase(m_isdsp) + Highest(PendingEnabled') * 16]_vars

\* C11: on the DSP line 5 is a working interrupt line: with I clear and the
\* sixth enable bit set, set_line(5, assert) leaves I set and PC at the
\* vector base plus 5*0x10; and a flags write with the line-5 clear bit
\* removes the pending bit set_line(5) sets.
C11_Line5Works ==
    [][m_isdsp
       => /\ (~ISet /\ Enabled(5) /\ SetLine(5, ASSERT_LINE))
             => (ISet' /\ m_ctrl'[G_PC] = VectorBase(m_isdsp) + 5 * 16)
          /\ (\E data \in FlagsData(focus) :
                  Test(data, CINT5FLAG) /\ CtrlWrite(G_FLAGS, data, -1))
             => ~Pending(5)']_vars

\* C12: every set_line(i, state) the host calls for a line i in 0..4
\* changes exactly bit 6+i of the control/status register, set on an
\* assert and cleared on a clear.  On a clear nothing else changes and no interrupt is dispatched; on an assert
\* the interrupt check has run when set_line returns: with I clear and
\* line i enabled the interrupt is dispatched within the call, with I set
\* nothing is dispatched.
C12_SetLineBit ==
    [][op' = "execute_set_input"
       => \A i \in focus \cap (0 .. 4) :
            /\ SetLine(i, CLEAR_LINE)
               => /\ m_ctrl' = [m_ctrl EXCEPT
                                   ![G_CTRL] = AndNot32(@, \h40 * (2 ^ i))]
                  /\ irqs' = irqs
                  /\ UNCHANGED <<m_r, m_a, m_b0, m_b1, m_icount,
                                 m_bankswitch_icount, m_ppc, m_accum, mem>>
            /\ SetLine(i, ASSERT_LINE)
               => /\ m_ctrl'[G_CTRL] = Or32(m_ctrl[G_CTRL], \h40 * (2 ^ i))
                  /\ (~ISet /\ Enabled(i)) => (irqs' = irqs + 1 /\ ISet')
                  /\ ISet => (irqs' = irqs /\ m_ctrl'[G_PC] = m_ctrl[G_PC])]_vars

\* an enabled line asserted with I clear: pending, dispatched in the call
C12_Witness ==
    /\ op = "execute_set_input"
    /\ irqs = 1
    /\ ISet
    /\ \E i \in 1 .. 4 :
         /\ Pending(i)
         /\ Enabled(i)
         /\ m_ctrl[G_PC] = VectorBase(m_isdsp) + i * 16

\* the bits of the written value a flags write stores
StoredFlags(isdsp) ==
    ZFLAG + CFLAG + NFLAG + EINT04FLAGS + RPAGEFLAG
    + (IF isdsp THEN EINT5FLAG ELSE 0)

\* what a flags write stores of the value newval: its Z, C, N, enable and
\* page bits and nothing else but, possibly, I
StoresOnly(newval) ==
    /\ And32(m_ctrl'[G_FLAGS], StoredFlags(m_isdsp))
           = And32(newval, StoredFlags(m_isdsp))
    /\ AndNot32(m_ctrl'[G_FLAGS], StoredFlags(m_isdsp) + IFLAG) = 0

\* C13, as stated: a flags write stores only the Z, C, N, enable and page
\* bits of the written value and leaves I as it was, for every written
\* value and write mask (stated for the writes whose interrupt check
\* dispatches nothing).
C13_IPreserved ==
    [][op' = "ctrl_w"
       => \A data \in WriteFlagsData(focus), mem_mask \in MaskData :
            CtrlWrite(G_FLAGS, data, mem_mask)
            => /\ StoresOnly(COMBINE_DATA(m_ctrl[G_FLAGS], data, mem_mask))
               /\ irqs' = irqs => (ISet' <=> ISet)]_vars

\* C13, amended: a flags write stores only the Z, C, N, enable and page
\* bits of the written value; it leaves I set only if I was set and bit 3
\* of the written value is set, and clears I otherwise, so I cannot be set
\* from outside; I is set after the write besides only when the write's own
\* interrupt check dispatches.
C13_INotSettable ==
    [][op' = "ctrl_w"
       => \A data \in WriteFlagsData(focus), mem_mask \in MaskData :
            CtrlWrite(G_FLAGS, data, mem_mask)
            => /\ StoresOnly(COMBINE_DATA(m_ctrl[G_FLAGS], data, mem_mask))
               /\ irqs' = irqs
                  => (ISet' <=> (ISet /\ Test(COMBINE_DATA(m_ctrl[G_FLAGS],
                                                           data, mem_mask),
                                              IFLAG)))
               /\ irqs' # irqs => ISet']_vars

\* I set by a dispatch and kept by two flags writes
C13_Witness ==
    /\ op = "ctrl_w"
    /\ ISet
    /\ irqs = 1
    /\ ops = 4
    /\ PageSet

\* C14: every flags write clears exactly the pending bits whose clear bit
\* is set in the written value, leaves the active bank the one the flags
\* select, and has run the interrupt check before it returns: if the I it
\* stored is clear and some line is still pending and enabled, the
\* interrupt is dispatched within the write.
C14_FlagsWriteChecks ==
    [][op' = "ctrl_w"
       => \A data \in FlagsData(focus) :
            CtrlWrite(G_FLAGS, data, -1)
            => /\ \A k \in Lines(m_isdsp) :
                    Pending(k)' <=> (Pending(k) /\ ~Test(data, ClearBit(k)))
               /\ Bank0Active' <=> (ISet' \/ ~PageSet')
               /\ (/\ ~(ISet /\ Test(data, IFLAG))
                   /\ \E k \in Lines(m_isdsp) : Pending(k)' /\ Enabled(k)')
                  => (irqs' = irqs + 1 /\ ISet')]_vars

\* C15: bits 1 and 2 of the control/status register are self-clearing:
\* they are 0 in every reachable state.  A control/status write with bit 1
\* set calls m_cpu_interrupt exactly once (and one without does not call
\* it); a write with bit 2 set leaves line 0 pending (bit 6) and has run
\* the interrupt check: with I clear and line 0 enabled an interrupt is
\* dispatched within the write.
C15_SelfClearing ==
    /\ [](And32(m_ctrl[G_CTRL], \h06) = 0)
    /\ [][op' = "ctrl_w"
          => \A data \in RunCtrlData :
               CtrlWrite(G_CTRL, data, -1)
               => /\ host'.cpu_interrupt = (IF Test(data, \h02) THEN 1 ELSE 0)
                  /\ Test(data, \h04)
                     => /\ Pending(0)'
                        /\ (~ISet /\ Enabled(0))
                           => (irqs' = irqs + 1 /\ ISet')]_vars

\* a write with bits 1 and 2 set: the callback made once, line 0 pending
\* and dispatched in the write
C15_Witness ==
    /\ op = "ctrl_w"
    /\ host.cpu_interrupt = 1
    /\ Pending(0)
    /\ ISet
    /\ irqs = 1
    /\ m_ctrl[G_PC] = VectorBase(m_isdsp)

\* the run bit (bit 0 of the control/status register)
RunBit == Test(m_ctrl[G_CTRL], \h01)

\* C16: a control/status write notifies the halt line and yields, once and
\* within the write, if and only if the run bit it leaves differs from the
\* one it found: the halt line is asserted when the new run bit is 0 and
\* cleared when it is 1; a write that leaves the run bit as it was does
\* neither.  No operation yields without the run bit changing.
C16_HaltNotified ==
    [][/\ op' = "ctrl_w"
          => \A data \in RunCtrlData :
               CtrlWrite(G_CTRL, data, -1)
               => IF RunBit' # RunBit
                  THEN /\ host'.halt = <<IF RunBit' THEN CLEAR_LINE
                                         ELSE ASSERT_LINE>>
                       /\ host'.yields = 1
                  ELSE /\ host'.halt = <<>>
                       /\ host'.yields = 0
       /\ (host'.yields > 0 \/ host'.halt # <<>>) => RunBit' # RunBit]_vars

\* a running core halted by a write: the halt line asserted, one yield
C16_Witness ==
    /\ op = "ctrl_w"
    /\ ~RunBit
    /\ host.halt = <<ASSERT_LINE>>
    /\ host.yields = 1

\* the last operation called nothing of the host
NoHostCall == host' = NoCalls

\* C17: a write to a control-register offset ctrl_w has no case for changes
\* nothing: the control registers (PC, flags, pending bits), both banks and
\* the memory are as before; a write to the endian-select register, with
\* any value, stores that value and changes nothing else.  Neither swaps
\* the banks, dispatches an interrupt or calls the host.
C17_DiagnosticOnly ==
    [][op' = "ctrl_w"
       => \A data \in EndData :
            /\ CtrlWrite(D_REMAINDER, data, -1)
               => /\ UNCHANGED <<m_ctrl, m_r, m_a, m_b0, m_b1, mem, irqs,
                                 m_bankswitch_icount>>
                  /\ NoHostCall
            /\ CtrlWrite(G_END, data, -1)
               => /\ m_ctrl' = [m_ctrl EXCEPT ![G_END] = data]
                  /\ UNCHANGED <<m_r, m_a, m_b0, m_b1, mem, irqs,
                                 m_bankswitch_icount>>
                  /\ NoHostCall]_vars

\* the endian-select register written little-endian while the flags select
\* bank 1 and, after a reset, bank 0 is the active one: a re-evaluation of
\* the banks would have swapped them
C17_Witness ==
    /\ op = "ctrl_w"
    /\ m_ctrl[G_END] = 2
    /\ PageSet
    /\ ~ISet
    /\ Bank0Active

\* C18: a div whose divisor register holds zero, whatever the dividend and
\* the divide-control bit, sets the destination register to 0xFFFFFFFF and
\* changes no other register, leaves the remainder register, the flags and
\* every other control register but the PC unchanged, and raises no fault:
\* the PC is at the next instruction, the run bit stays set, the host is
\* not called, and the loop goes on while the budget lasts.
C18_DivByZero ==
    [][(op' = "run_iteration" /\ OpIndex(Fetched) = 21
        /\ m_r[OpSrc(Fetched)] = 0)
       => /\ m_r' = [m_r EXCEPT ![OpDst(Fetched)] = -1]
          /\ m_ctrl' = [m_ctrl EXCEPT ![G_PC] = Add32(m_ctrl[G_PC], 2)]
          /\ host'.halt = <<>> /\ host'.cpu_interrupt = 0
          /\ running' = (m_icount > 1)]_vars

\* 0x12345678 divided by zero after a division that left a remainder,
\* with the divide-control bit and flags set
C18_Witness ==
    /\ op = "run_iteration"
    /\ m_ppc = LoadBase(m_isdsp) + 12
    /\ OpIndex(WordAt(m_ppc)) = 21
    /\ m_r[4] = 0 /\ m_r[1] = -1
    /\ m_ctrl[D_REMAINDER] # 0
    /\ Test(m_ctrl[G_DIVCTRL], 1)
    /\ m_ctrl[G_FLAGS] # 0
    /\ WordAt(LoadBase(m_isdsp) + 2) = \h5678
    /\ running

\* the number of consecutive imacn-class words (opcode index 20) from
\* address a on
RECURSIVE ChainLen(_)
ChainLen(a) == IF OpIndex(WordAt(a)) = 20 THEN 1 + ChainLen(a + 2) ELSE 0

\* the signed 16x16 product of the register pair opcode word w names
Product(w) == Int16(m_r[OpSrc(w)]) * Int16(m_r[OpDst(w)])

\* the sums of the high parts and of the low 16 bits of the products named
\* by the n words from address a on
RECURSIVE SumHi(_, _)
SumHi(a, n) ==
    IF n = 0 THEN 0 ELSE (Product(WordAt(a)) \div 65536) + SumHi(a + 2, n - 1)

RECURSIVE SumLo(_, _)
SumLo(a, n) ==
    IF n = 0 THEN 0 ELSE (Product(WordAt(a)) % 65536) + SumLo(a + 2, n - 1)

\* the sum of those products, as hi * 2^16 + lo, and its low 32 bits
ProductSum(a, n) ==
    [hi |-> SumHi(a, n) + (SumLo(a, n) \div 65536), lo |-> SumLo(a, n) % 65536]

Low32(sum) == Join16(sum.hi % 65536, sum.lo)

\* C19: an imultn word followed in memory by k >= 0 imacn-class words and
\* then a resmac-class word is executed by one iteration of the run loop:
\* the PC ends just after the resmac word, one cycle is charged, the
\* accumulator is the sum of the k+1 signed 16x16 products of the register
\* pairs the words name, and the register the resmac word names (and no
\* other) receives the low 32 bits of that sum.
C19_ChainSum ==
    [][(op' = "run_iteration" /\ OpIndex(Fetched) = 18
        /\ OpIndex(WordAt(m_ctrl[G_PC] + 2 + 2 * ChainLen(m_ctrl[G_PC] + 2)))
               = 19)
       => LET k == ChainLen(m_ctrl[G_PC] + 2)
              last == WordAt(m_ctrl[G_PC] + 2 + 2 * k)
          IN  /\ m_ctrl'[G_PC] = m_ctrl[G_PC] + 2 * (k + 2)
              /\ m_icount' = m_icount - 1
              /\ run'.iters = run.iters + 1
              /\ m_accum' = ProductSum(m_ctrl[G_PC], k + 1)
              /\ m_r' = [m_r EXCEPT ![OpDst(last)] =
                                       Low32(ProductSum(m_ctrl[G_PC], k + 1))]
       ]_vars

\* the longest chain loaded, executed on operands whose products add up to
\* more than 31 bits hold: the register gets a sum truncated to a negative
\* 32-bit value
C19_Witness ==
    /\ op = "run_iteration"
    /\ OpIndex(WordAt(m_ppc)) = 18
    /\ ChainLen(m_ppc + 2) = MaxChain
    /\ m_ctrl[G_PC] = m_ppc + 2 * (MaxChain + 2)
    /\ m_accum.hi >= 32768
    /\ m_r[5] = Low32(m_accum) /\ m_r[5] < 0

\* the byte and word loads and stores: loadb 39, loadw 40, storeb 45,
\* storew 46; the kind and the width of the access each asks for
NarrowOps == {39, 40, 45, 46}

AccessKind(w) == IF OpIndex(w) \in {39, 40} THEN "read" ELSE "write"

AccessWidth(w) == IF OpIndex(w) \in {39, 45} THEN 1 ELSE 2

\* address a maps into the internal-RAM window of the 24-bit address space
InWindow(a) ==
    /\ Addr24(a) >= InternalRamStart(m_isdsp)
    /\ Addr24(a) <= InternalRamEnd(m_isdsp)

\* what the statement asks of the accesses made by a byte or word load or
\* store at address a
AliasedAccess(w, a, access) ==
    IF InWindow(a)
    THEN /\ Len(access) = 1
         /\ access[1][1] = AccessKind(w)
         /\ access[1][2] = 4
         /\ Addr24(access[1][3]) = AndNot32(Addr24(a), 3)
    ELSE access = <<<<AccessKind(w), AccessWidth(w), a>>>>

\* C20: a storeb, storew, loadb or loadw whose address maps into the
\* internal-RAM window of the 24-bit address space makes exactly one
\* 32-bit access at the address with its two low bits cleared, and no
\* 1-byte or 2-byte access; at every other address it makes one access of
\* the width it asks for.
C20_Aliasing ==
    [][(op' = "run_iteration" /\ OpIndex(Fetched) \in NarrowOps)
       => AliasedAccess(Fetched, m_r[OpSrc(Fetched)], host'.access)]_vars

\* the same for the addresses that have no bit set above bit 23
C20_AliasingLow ==
    [][(op' = "run_iteration" /\ OpIndex(Fetched) \in NarrowOps
        /\ m_r[OpSrc(Fetched)] = Addr24(m_r[OpSrc(Fetched)]))
       => AliasedAccess(Fetched, m_r[OpSrc(Fetched)], host'.access)]_vars

\* a byte store inside the window done as a 32-bit write
C20_Witness ==
    /\ op = "run_iteration"
    /\ OpIndex(WordAt(m_ppc)) = 45
    /\ InWindow(m_r[1])
    /\ host.access = <<<<"write", 4, AndNot32(m_r[1], 3)>>>>

\* C21: a run-loop iteration that fetches nop (index 57) or, on the DSP,
\* illegal (index 62) changes only the PC (+2), ppc and the budget (-1):
\* the registers of both banks, the bank roles, the flags and every other
\* control register, the accumulator and the memory are unchanged, the
\* run bit stays set and the host is not called.
C21_NoStateChange ==
    [][(op' = "run_iteration"
        /\ (OpIndex(Fetched) = 57 \/ (m_isdsp /\ OpIndex(Fetched) = 62)))
       => /\ m_r' = m_r /\ m_a' = m_a
          /\ m_b0' = m_b0 /\ m_b1' = m_b1
          /\ m_ctrl' = [m_ctrl EXCEPT ![G_PC] = Add32(m_ctrl[G_PC], 2)]
          /\ m_ppc' = m_ctrl[G_PC]
          /\ m_icount' = m_icount - 1
          /\ m_accum' = m_accum
          /\ mem' = mem
          /\ NoHostCall]_vars

\* the DSP after opcode 62, with registers of both banks, the accumulator
\* and the flags holding values
C21_Witness ==
    /\ op = "run_iteration"
    /\ m_isdsp
    /\ OpIndex(WordAt(m_ppc)) = 62
    /\ m_r[1] # 0 /\ m_a[1] # 0
    /\ m_accum # Acc(0)
    /\ m_ctrl[G_FLAGS] # 0

\* the instances that were started, and whether the tables exist
StartedInstances == {i \in Instances : instances[i].m_tables_referenced}

TablesPresent ==
    tables.mirror_table = "built" /\ tables.condition_table = "built"

\* C22: under every interleaving of constructions, starts and
\* destructions of several instances, the tables are built only by the
\* start of the first instance (a start while another started instance
\* exists builds nothing), they are released only by the destruction of
\* the last started instance, the destruction of an instance that was
\* never started changes no reference count and not the tables, and the
\* tables are present while a started instance exists.
C22_SharedLifetime ==
    /\ [](StartedInstances # {} => TablesPresent)
    /\ [][\A i \in Instances :
            /\ (op' = "device_start" /\ instances'[i] # instances[i])
                  => tables'.builds =
                        tables.builds + (IF StartedInstances = {} THEN 1 ELSE 0)
            /\ (op' = "destructor" /\ instances'[i] # instances[i])
                  => /\ TablesPresent'
                          = (TablesPresent /\ StartedInstances \ {i} # {})
                     /\ ~instances[i].m_tables_referenced
                          => /\ tables' = tables
                             /\ \A j \in Instances \ {i} :
                                    instances'[j] = instances[j]]_vars

\* two started instances
C22_TwoStarted == Cardinality(StartedInstances) >= 2 /\ op = "device_start"

\* the operations the host calls (an iteration of the run loop goes on
\* after the calls its opcode makes)
HostOps ==
    {"execute_set_input", "ctrl_w", "device_post_load", "execute_run"}

\* C23: when the core makes a call out of itself, what the operation in
\* progress changes is already in place: the return-address write of an
\* interrupt dispatch finds I set, bank 0 active and the PC at the vector
\* (the PC the operation ends with), and the interrupt-request callback
\* of a control/status write with bit 1 set finds bit 1 of the stored
\* register clear.
C23_CommittedAtCall ==
    [][/\ (op' \in HostOps /\ irqs' = irqs + 1)
          => \A k \in 1 .. Len(host'.observed) :
                host'.observed[k].call = "write"
                   => /\ Test(host'.observed[k].m_ctrl[G_FLAGS], IFLAG)
                      /\ host'.observed[k].m_b0 = "m_r"
                      /\ host'.observed[k].m_ctrl[G_PC] = m_ctrl'[G_PC]
       /\ \A k \in 1 .. Len(host'.observed) :
             host'.observed[k].call = "m_cpu_interrupt"
                => ~Test(host'.observed[k].m_ctrl[G_CTRL], \h02)]_vars

\* the return-address write alone: I set and bank 0 active, the PC left
\* aside
C23_PushAfterFlagAndBank ==
    [][(op' \in HostOps /\ irqs' = irqs + 1)
          => \A k \in 1 .. Len(host'.observed) :
                host'.observed[k].call = "write"
                   => /\ Test(host'.observed[k].m_ctrl[G_FLAGS], IFLAG)
                      /\ host'.observed[k].m_b0 = "m_r"]_vars

\* the interrupt-request callback alone
C23_CallbackAfterClear ==
    [][\A k \in 1 .. Len(host'.observed) :
          host'.observed[k].call = "m_cpu_interrupt"
             => ~Test(host'.observed[k].m_ctrl[G_CTRL], \h02)]_vars

\* the flags value with only the page bit, set or clear
PageData(page) == IF page THEN RPAGEFLAG ELSE 0

\* the state after the page bit has been written toggled and then written
\* back
ToggledTwice ==
    ctrl_w(ctrl_w(Cur, G_FLAGS, PageData(~PageSet), -1),
           G_FLAGS, PageData(PageSet), -1)

\* a step that writes the flags, from the host or by a store of the
\* program to the port, without an interrupt dispatch
FlagsWritten == op' \in {"ctrl_w", "run_iteration"} /\ irqs' = irqs

\* what C24 says of a step and of a state
SwapExchanges ==
    /\ (~ISet /\ ~ISet' /\ PageSet' # PageSet)
          => m_r' = m_a /\ m_a' = m_r /\ m_b0' = m_b1 /\ m_b1' = m_b0
    /\ (op' = "ctrl_w" /\ (ISet' \/ ~PageSet') = (ISet \/ ~PageSet))
          => /\ m_r' = m_r /\ m_a' = m_a
             /\ m_bankswitch_icount' = m_bankswitch_icount

TwiceRestores == ToggledTwice.m_r = m_r /\ ToggledTwice.m_a = m_a

\* C24: a flags write that changes the desired bank (I clear, the page
\* bit toggled) leaves in every register of the active view what the same
\* register of the alternate view held and the reverse, and swaps the
\* roles; a write that leaves the desired bank as it was changes no
\* register and not the sentinel; the page bit toggled twice gives back
\* both arrays.
C24_SwapExchanges ==
    /\ [][FlagsWritten => SwapExchanges]_vars
    /\ []((~running /\ ~ISet) => TwiceRestores)

\* the same for the states in which the active bank is the one the flags
\* select
C24_FromSelectedBank ==
    /\ [][(FlagsWritten /\ (Bank0Active <=> (ISet \/ ~PageSet)))
             => SwapExchanges]_vars
    /\ []((~running /\ ~ISet /\ (Bank0Active <=> ~PageSet)) => TwiceRestores)

\* a swap between banks that differ
C24_Witness ==
    /\ op \in {"ctrl_w", "run_iteration"}
    /\ ~ISet /\ PageSet /\ ~Bank0Active
    /\ m_r # m_a

\* the branch fetched by the next iteration, whether its condition holds,
\* and the targets it can have: PC-relative for jr, the register of either
\* bank for jump
BranchFetched == m_table(Cur)[OpIndex(Fetched) + 1] \in {"jr_cc_n", "jump_cc_rn"}

BranchHolds == CONDITION(Cur, OpDst(Fetched))

BranchTargets ==
    IF m_table(Cur)[OpIndex(Fetched) + 1] = "jr_cc_n"
    THEN {Add32(Add32(m_ctrl[G_PC], 2), U32(JrDisp(Fetched)))}
    ELSE {m_r[OpSrc(Fetched)], m_a[OpSrc(Fetched)]}

\* the word after the branch
SlotWord == WordAt(Add32(m_ctrl[G_PC], 2))

\* the state after instruction word w is executed through the variant's
\* table with PC at pc, in the iteration that fetched at the current PC
Executed(w, pc) ==
    Dispatch([SetCtrl(Cur, G_PC, pc) EXCEPT !.m_ppc = m_ctrl[G_PC]], w)

\* the iteration leaves the registers, the control registers, the
\* accumulator and the memory as they are in s
StepLeaves(s) ==
    /\ m_r' = s.m_r
    /\ m_a' = s.m_a
    /\ m_ctrl' = s.m_ctrl
    /\ m_accum' = s.m_accum
    /\ mem' = s.mem

JumpTaken ==
    /\ m_table(Cur)[OpIndex(Fetched) + 1] = "jump_cc_rn"
    /\ BranchHolds
    /\ SlotWord = NOP

\* the iteration before, of the same run, executed an instruction that
\* swapped the banks
AfterSwap == run.swapped > 0

\* C26: a taken jump_cc reads its target from the register of the
\* alternate bank when the instruction executed immediately before it, in
\* the same run, swapped the banks, and from the active bank in every other
\* case.
C26_PostSwapJump ==
    [][(op' = "run_iteration" /\ JumpTaken)
       => m_ctrl'[G_PC] = IF AfterSwap THEN m_a[OpSrc(Fetched)]
                          ELSE m_r[OpSrc(Fetched)]]_vars

\* the same where the swapping instruction was not executed in the
\* iteration of a taken branch
C26_AfterPlainSwap ==
    [][(op' = "run_iteration" /\ JumpTaken /\ run.taken = 0)
       => m_ctrl'[G_PC] = IF AfterSwap THEN m_a[OpSrc(Fetched)]
                          ELSE m_r[OpSrc(Fetched)]]_vars

\* a jump right after a swapping store has gone to the target held by the
\* alternate bank, the active one holding another
C26_Witness ==
    /\ op = "run_iteration"
    /\ run.taken = 1
    /\ run.swaps = 1
    /\ run.iters = 5
    /\ m_ctrl[G_PC] = m_a[7]
    /\ m_a[7] # m_r[7]

\* the handler of the instruction fetched by the next iteration
FetchedHandler == m_table(Cur)[OpIndex(Fetched) + 1]

\* the 16-bit half i of the registers of a bank from the source index on,
\* high half first
HalfOf(bank, i) ==
    Int16(IF i % 2 = 0 THEN Hi16(bank[OpSrc(Fetched) + (i \div 2)])
          ELSE Lo16(bank[OpSrc(Fetched) + (i \div 2)]))

\* the number of terms and the matrix word of term i: contiguous or strided
MtxCount == m_ctrl[G_MTXC] % 16

MtxWord(i) ==
    Int16(WordAt(m_ctrl[G_MTXA]
                 + (IF (m_ctrl[G_MTXC] \div 16) % 2 = 1 THEN 2 * MtxCount * i
                    ELSE 2 * i)))

\* the sums of the high parts and of the low 16 bits of the first n terms
RECURSIVE MtxSumHi(_, _)
MtxSumHi(bank, n) ==
    IF n = 0 THEN 0
    ELSE ((HalfOf(bank, n - 1) * MtxWord(n - 1)) \div 65536)
         + MtxSumHi(bank, n - 1)

RECURSIVE MtxSumLo(_, _)
MtxSumLo(bank, n) ==
    IF n = 0 THEN 0
    ELSE ((HalfOf(bank, n - 1) * MtxWord(n - 1)) % 65536)
         + MtxSumLo(bank, n - 1)

\* the low 32 bits of the dot product of a bank with the matrix
DotProduct(bank) ==
    Low32([hi |-> MtxSumHi(bank, MtxCount)
                  + (MtxSumLo(bank, MtxCount) \div 65536),
           lo |-> MtxSumLo(bank, MtxCount) % 65536])

\* the registers the fetched mmult reads lie within the bank
MtxInBank == OpSrc(Fetched) + ((MtxCount + 1) \div 2) <= 32

\* C27: mmult leaves in its destination the low 32 bits of the sum, over
\* the N terms the low 4 bits of the matrix control register count, of the
\* 16-bit halves of the ALTERNATE bank's registers from the source index
\* on (high half first) times the signed memory words at the matrix
\* address plus 2*i (contiguous) or 2*N*i (strided), whichever bank is
\* active.
C27_AlternateBank ==
    [][(op' = "run_iteration" /\ FetchedHandler = "mmult_rn_rn" /\ MtxInBank)
       => m_r'[OpDst(Fetched)] = DotProduct(m_a)]_vars

\* the same of the registers of bank 1, active or not
C27_BankOne ==
    [][(op' = "run_iteration" /\ FetchedHandler = "mmult_rn_rn" /\ MtxInBank)
       => m_r'[OpDst(Fetched)]
              = DotProduct(IF m_b0 = "m_r" THEN m_a ELSE m_r)]_vars

\* a product of 15 terms that needs more than 32 bits, 15 * 2^30, taken
\* with bank 0 active
C27_Witness ==
    /\ op = "run_iteration"
    /\ run.iters = 1
    /\ m_b0 = "m_r"
    /\ m_ctrl[G_MTXC] = 15
    /\ m_r[2] = Join16(\hC000, 0)
    /\ m_a[4] = Join16(\h8000, \h8000)

\* the carry flag read by addc and subc
CarryFlag == IF (m_ctrl[G_FLAGS] \div CFLAG) % 2 = 1 THEN 1 ELSE 0

\* dest + src + c >= 2^32 and src + c > dest, as unbounded integers
SumCarries(dest, src, c) ==
    Hi16(dest) + Hi16(src) + ((Lo16(dest) + Lo16(src) + c) \div 65536) >= 65536

Borrows(dest, src, c) ==
    \/ Hi16(src) > Hi16(dest)
    \/ Hi16(src) = Hi16(dest) /\ Lo16(src) + c > Lo16(dest)

\* what addc or subc leaves for the operands dest, src, c: the result and C
CarryResult(dest, src, c) ==
    IF FetchedHandler = "addc_rn_rn"
    THEN /\ m_r'[OpDst(Fetched)] = Add32(Add32(dest, src), c)
         /\ ((m_ctrl'[G_FLAGS] \div CFLAG) % 2 = 1) <=> SumCarries(dest, src, c)
    ELSE /\ m_r'[OpDst(Fetched)] = Sub32(Sub32(dest, src), c)
         /\ ((m_ctrl'[G_FLAGS] \div CFLAG) % 2 = 1) <=> Borrows(dest, src, c)

\* C28: addc sets the destination to (dest + src + C_in) mod 2^32 and C
\* exactly when dest + src + C_in is at least 2^32; subc sets it to
\* (dest - src - C_in) mod 2^32 and C exactly when src + C_in exceeds dest;
\* for every operand pair, src = 0xFFFFFFFF with C_in = 1 included.
C28_Carry ==
    [][(op' = "run_iteration"
        /\ FetchedHandler \in {"addc_rn_rn", "subc_rn_rn"})
       => CarryResult(m_r[OpDst(Fetched)], m_r[OpSrc(Fetched)], CarryFlag)]_vars

\* the same for every operand pair but src = 0xFFFFFFFF with C_in = 1
C28_CarryBelowWrap ==
    [][(op' = "run_iteration"
        /\ FetchedHandler \in {"addc_rn_rn", "subc_rn_rn"}
        /\ ~(m_r[OpSrc(Fetched)] = -1 /\ CarryFlag = 1))
       => CarryResult(m_r[OpDst(Fetched)], m_r[OpSrc(Fetched)], CarryFlag)]_vars

\* addc has added 0x7FFFFFFF, 1 and the carry: no carry out, N set
C28_Witness ==
    /\ op = "run_iteration"
    /\ run.iters = 1
    /\ WordAt(m_ppc) = Op(1, 1, 2)
    /\ m_r[1] = 1
    /\ m_r[2] = -2147483647 - 1
    /\ m_ctrl[G_FLAGS] = NFLAG

\* C29: after addqmod or subqmod every destination bit the modulo register
\* selects is the bit of the original register value, and every other bit
\* is the bit of the original value plus or minus the quick value.
C29_ModuloMask ==
    [][(op' = "run_iteration"
        /\ FetchedHandler \in {"addqmod_n_rn", "subqmod_n_rn"})
       => /\ And32(m_r'[OpDst(Fetched)], m_ctrl[D_MOD])
                 = And32(m_r[OpDst(Fetched)], m_ctrl[D_MOD])
          /\ AndNot32(m_r'[OpDst(Fetched)], m_ctrl[D_MOD])
                 = AndNot32(IF FetchedHandler = "addqmod_n_rn"
                            THEN Add32(m_r[OpDst(Fetched)],
                                       convert_zero(OpSrc(Fetched)))
                            ELSE Sub32(m_r[OpDst(Fetched)],
                                       convert_zero(OpSrc(Fetched))),
                            m_ctrl[D_MOD])]_vars

\* bit j of a u32
BitOf(x, j) ==
    (IF j >= 16 THEN Hi16(x) \div (2 ^ (j - 16)) ELSE Lo16(x) \div (2 ^ j)) % 2

\* res is v shifted left by k: bit j of res is bit j - k of v, 0 below k
ShiftedLeft(res, v, k) ==
    \A j \in 0 .. 31 : BitOf(res, j) = IF j >= k THEN BitOf(v, j - k) ELSE 0

\* res is v shifted right by k with fill bit f: bit j of res is bit j + k
\* of v, f from bit 32 - k on
ShiftedRight(res, v, k, f) ==
    \A j \in 0 .. 31 : BitOf(res, j) = IF j <= 31 - k THEN BitOf(v, j + k) ELSE f

\* the fill bit of a right shift: 0 for sh, the sign bit for sha
FillBit(v) == IF FetchedHandler = "sh_rn_rn" THEN 0 ELSE BitOf(v, 31)

\* C30 as stated: sh and sha shift left for a negative count and right
\* for a non-negative one, and both leave 0 whenever the magnitude of the
\* count is 32 or more; below 32 the right shift of sh fills with 0, that
\* of sha with the sign bit.
C30_ClampedToZero ==
    [][(op' = "run_iteration" /\ FetchedHandler \in {"sh_rn_rn", "sha_rn_rn"})
       => LET n == m_r[OpSrc(Fetched)]
              v == m_r[OpDst(Fetched)]
              res == m_r'[OpDst(Fetched)]
          IN  IF n <= -32 \/ n >= 32 THEN res = 0
              ELSE IF n < 0 THEN ShiftedLeft(res, v, -n)
              ELSE ShiftedRight(res, v, n, FillBit(v))]_vars

\* C30: sh and sha shift left for a negative count and right for a
\* non-negative one.  A left shift of magnitude 32 or more leaves 0 for
\* both, a right shift of 32 or more leaves 0 for sh and 32 copies of the
\* sign bit for sha (0 or 0xFFFFFFFF); below 32 the right shift of sh fills
\* with 0, that of sha with the sign bit.
C30_ClampedToFill ==
    [][(op' = "run_iteration" /\ FetchedHandler \in {"sh_rn_rn", "sha_rn_rn"})
       => LET n == m_r[OpSrc(Fetched)]
              v == m_r[OpDst(Fetched)]
              res == m_r'[OpDst(Fetched)]
          IN  IF n <= -32 THEN res = 0
              ELSE IF n >= 32 THEN res = -FillBit(v)
              ELSE IF n < 0 THEN ShiftedLeft(res, v, -n)
              ELSE ShiftedRight(res, v, n, FillBit(v))]_vars

\* sha has shifted a negative value right by 33: all ones
C30_Witness ==
    /\ op = "run_iteration"
    /\ run.iters = 1
    /\ WordAt(m_ppc) = Op(26, 1, 2)
    /\ m_r[1] = 33
    /\ m_r[2] = -1
    /\ Test(m_ctrl[G_FLAGS], NFLAG)


\* the handler the named variant has at a variant-specific opcode, applied
VariantHandler(isdsp, s, w) ==
    CASE OpIndex(w) = 32 -> IF isdsp THEN subqmod_n_rn(s, w) ELSE sat8_rn(s, w)
      [] OpIndex(w) = 33 -> IF isdsp THEN sat16s_rn(s, w) ELSE sat16_rn(s, w)
      [] OpIndex(w) = 42 -> IF isdsp THEN sat32s_rn(s, w) ELSE loadp_rn_rn(s, w)
      [] OpIndex(w) = 48 -> IF isdsp THEN mirror_rn(s, w) ELSE storep_rn_rn(s, w)
      [] OpIndex(w) = 62 -> IF isdsp THEN illegal(s, w) ELSE sat24_rn(s, w)
      [] OpIndex(w) = 63 -> IF isdsp THEN addqmod_n_rn(s, w) ELSE pack_rn(s, w)

\* the names the two tables have at those opcodes
GpuNames ==
    (32 :> "sat8_rn") @@ (33 :> "sat16_rn") @@ (42 :> "loadp_rn_rn")
    @@ (48 :> "storep_rn_rn") @@ (62 :> "sat24_rn") @@ (63 :> "pack_rn")

DspNames ==
    (32 :> "subqmod_n_rn") @@ (33 :> "sat16s_rn") @@ (42 :> "sat32s_rn")
    @@ (48 :> "mirror_rn") @@ (62 :> "illegal") @@ (63 :> "addqmod_n_rn")

\* C31: the GPU and DSP operation tables have the same handler at every
\* opcode 0..63 except 32, 33, 42, 48, 62 and 63, where the GPU has sat8,
\* sat16, loadp, storep, sat24, pack and the DSP subqmod, sat16s, sat32s,
\* mirror, illegal, addqmod; and a variant-specific instruction folded by a
\* taken branch has the effect of the handler of the variant the instance
\* was constructed as.
C31_VariantTables ==
    [][/\ {i \in 0 .. 63 : gpu_op_table[i + 1] # dsp_op_table[i + 1]}
           = {32, 33, 42, 48, 62, 63}
       /\ \A i \in {32, 33, 42, 48, 62, 63} :
              gpu_op_table[i + 1] = GpuNames[i] /\ dsp_op_table[i + 1] = DspNames[i]
       /\ (op' = "run_iteration" /\ BranchFetched /\ BranchHolds
              /\ OpIndex(SlotWord) \in {32, 33, 42, 48, 62, 63})
          => \E t \in BranchTargets :
                 StepLeaves(VariantHandler(m_isdsp,
                     [SetCtrl(Cur, G_PC, t) EXCEPT !.m_ppc = m_ctrl[G_PC]],
                     SlotWord))]_vars

\* a DSP has run a taken jr with addqmod #1,r2 in its delay slot: r2 is one
\* more (pack, the GPU's handler at that opcode, would have unpacked it)
C31_Witness ==
    /\ m_isdsp
    /\ op = "run_iteration"
    /\ run.taken = 1
    /\ WordAt(LoadBase(TRUE)) = Op(53, 2, 0)
    /\ WordAt(LoadBase(TRUE) + 2) = Op(63, 1, 2)
    /\ m_ctrl[G_PC] = LoadBase(TRUE) + 6
    /\ m_r[2] = \h12345679

\* C32: every dispatch step returns, whatever the memory and the registers
\* hold: the fetch loop of imultn stops, and a taken branch that folds a
\* taken branch does not make the handlers call each other without end; so
\* every call of execute_run with a finite budget returns.
C32_DispatchReturns == ~run.diverged

\* C33: mmult reads no register outside the 32 of the bank: whatever the
\* source register 0..31 and the term count 0..15, every index sreg + i/2
\* it reads is at most 31.
C33_WithinBank ==
    [][(op' = "run_iteration" /\ FetchedHandler = "mmult_rn_rn")
       => \A i \in 0 .. MtxCount - 1 : OpSrc(Fetched) + (i \div 2) <= 31]_vars


\* C34: while the run bit is clear, set_line and execute_run leave the PC,
\* register 31, the flags and the active bank as they are (these change
\* only through control-port writes and reset): a set_line call made while
\* halted records the pending bit and dispatches no interrupt.
C34_HaltedFrozen ==
    [][(~RunBit /\ op' \in {"execute_set_input", "execute_run"})
       => /\ m_ctrl'[G_PC] = m_ctrl[G_PC]
          /\ m_ctrl'[G_FLAGS] = m_ctrl[G_FLAGS]
          /\ m_r'[31] = m_r[31]
          /\ m_b0' = m_b0
          /\ irqs' = irqs]_vars

\* the same while no enabled line is pending after the call, and for
\* execute_run in every case
C34_FrozenUnlessDispatched ==
    [][(~RunBit /\ op' \in {"execute_set_input", "execute_run"}
          /\ (op' = "execute_run" \/ irqs' = irqs))
       => /\ m_ctrl'[G_PC] = m_ctrl[G_PC]
          /\ m_ctrl'[G_FLAGS] = m_ctrl[G_FLAGS]
          /\ UNCHANGED <<m_r, m_a, m_b0, m_b1, mem>>
          /\ irqs' = irqs]_vars

\* the pending-interrupt bits of the control/status register: bits 6..10
\* and, on the DSP, bit 16
PendingBits ==
    And32(m_ctrl[G_CTRL], \h7C0 + (IF m_isdsp THEN \h10000 ELSE 0))

\* a line 0..4 has just been dispatched and its pending bit is still set
ServedStillPending ==
    \A k \in 0 .. 4 :
        (irqs' = irqs + 1 /\ m_ctrl'[G_PC] = VectorBase(m_isdsp) + k * 16)
        => Test(m_ctrl'[G_CTRL], \h40 * (2 ^ k))

\* C35: the pending-interrupt bits change only through set_line, through
\* the acknowledge bits of a flags write and through the bit2 request of a
\* control/status write; a control/status write with bit2 clear leaves
\* every pending bit as it was, and the dispatch of an interrupt does not
\* clear the pending bit of the line it serves.
C35_PendingFrame ==
    [][/\ PendingBits' # PendingBits => op' \in {"execute_set_input", "ctrl_w"}
       /\ \A data \in RunCtrlData :
              (CtrlWrite(G_CTRL, data, -1) /\ ~Test(data, 4))
              => PendingBits' = PendingBits
       /\ \A data \in FlagsData(focus) :
              (CtrlWrite(G_FLAGS, data, -1) /\ ~Test(data, CINT04FLAGS + CINT5FLAG))
              => PendingBits' = PendingBits
       /\ ServedStillPending]_vars

\* the same, a control/status write putting into the pending bits what it
\* writes there, and bit 6 as well when its bit2 is set
C35_CtrlWriteStoresPending ==
    [][/\ PendingBits' # PendingBits => op' \in {"execute_set_input", "ctrl_w"}
       /\ \A data \in RunCtrlData :
              CtrlWrite(G_CTRL, data, -1)
              => PendingBits'
                     = Or32(And32(data, \h7C0 + (IF m_isdsp THEN \h10000 ELSE 0)),
                            IF Test(data, 4) THEN \h40 ELSE 0)
       /\ \A data \in FlagsData(focus) :
              (CtrlWrite(G_FLAGS, data, -1) /\ ~Test(data, CINT04FLAGS + CINT5FLAG))
              => PendingBits' = PendingBits
       /\ ServedStillPending]_vars

\* the handler of the word in the delay slot of the fetched branch
SlotHandler == m_table(Cur)[OpIndex(SlotWord) + 1]

\* C36: move pc,rn leaves in its destination the address of the move pc
\* instruction itself, fetched by the loop or folded into a taken jump_cc
\* or jr_cc.
C36_OwnAddress ==
    [][/\ (op' = "run_iteration" /\ FetchedHandler = "move_pc_rn")
          => m_r'[OpDst(Fetched)] = m_ctrl[G_PC]
       /\ (op' = "run_iteration" /\ BranchFetched /\ BranchHolds
              /\ SlotHandler = "move_pc_rn")
          => m_r'[OpDst(SlotWord)] = Add32(m_ctrl[G_PC], 2)]_vars

\* fetched by the loop it leaves its own address; folded into a taken
\* branch it leaves the address of the branch
C36_AddressOfFetched ==
    [][/\ (op' = "run_iteration" /\ FetchedHandler = "move_pc_rn")
          => m_r'[OpDst(Fetched)] = m_ctrl[G_PC]
       /\ (op' = "run_iteration" /\ BranchFetched /\ BranchHolds
              /\ SlotHandler = "move_pc_rn")
          => m_r'[OpDst(SlotWord)] = m_ctrl[G_PC]]_vars

\* no data access of the last operation fell into the control-register port
NoPortAccess ==
    \A i \in DOMAIN host.access : ~InCtrlPort(m_isdsp, host.access[i][3])

\* the handlers said to change no flag
FlagFree ==
    {"addqt_n_rn", "subqt_n_rn", "move_rn_rn", "move_pc_rn", "moveq_n_rn",
     "movei_n_rn", "movefa_rn_rn", "moveta_rn_rn", "load_rn_rn",
     "loadb_rn_rn", "loadw_rn_rn", "loadp_rn_rn", "load_r14n_rn",
     "load_r15n_rn", "load_r14rn_rn", "load_r15rn_rn", "store_rn_rn",
     "storeb_rn_rn", "storew_rn_rn", "storep_rn_rn", "store_rn_r14n",
     "store_rn_r15n", "store_rn_r14rn", "store_rn_r15rn", "div_rn_rn",
     "pack_rn", "resmac_rn"}

\* C37: an iteration none of whose data accesses falls into the
\* control-register port leaves the flags bits 3 and above as they were,
\* whatever the opcode; and addqt, subqt, the moves, the loads, the stores,
\* div, pack and resmac leave every flag bit as it was.
C37_OnlyZCN ==
    [][(op' = "run_iteration" /\ NoPortAccess')
       => /\ AndNot32(m_ctrl'[G_FLAGS], 7) = AndNot32(m_ctrl[G_FLAGS], 7)
          /\ FetchedHandler \in FlagFree
                 => m_ctrl'[G_FLAGS] = m_ctrl[G_FLAGS]]_vars

\* add r1,r2 has run on flags with I, the enable bits, the DMA bit and Z,
\* C, N set: Z, C and N are clear and the other bits are as they were
C37_Witness ==
    /\ op = "run_iteration"
    /\ run.iters = 1
    /\ WordAt(LoadBase(m_isdsp)) = Op(0, 1, 2)
    /\ m_r[2] = Add32(\h12345678, MatrixBase(m_isdsp))
    /\ m_ctrl[G_FLAGS] = IFLAG + EINT04FLAGS + DMAFLAG + EINT5FLAG

\* the condition a code states, on Z and on C (bit 4 of the code clear) or
\* N (bit 4 set): bit 0 asks for Z clear, bit 1 for Z set, bit 2 for the
\* tested flag clear, bit 3 for it set
CodeHolds(flags, code) ==
    LET z == Test(flags, ZFLAG)
        tested == IF Test(code, 16) THEN Test(flags, NFLAG) ELSE Test(flags, CFLAG)
    IN  /\ Test(code, 1) => ~z
        /\ Test(code, 2) => z
        /\ Test(code, 4) => ~tested
        /\ Test(code, 8) => tested

\* C38: a fetched jr or jump is taken exactly when the condition its 5-bit
\* code states holds on Z, C and N, whatever the other flags are: code 0
\* is always taken, a code with bits 0 and 1 both set or bits 2 and 3 both
\* set is never taken, and bit 4 of the code makes bits 2 and 3 test N
\* instead of C.
C38_ConditionCodes ==
    [][(op' = "run_iteration" /\ BranchFetched)
       => LET code == OpDst(Fetched)
              taken == run'.taken > 0
          IN  /\ taken <=> CodeHolds(m_ctrl[G_FLAGS], code)
              /\ code = 0 => taken
              /\ And32(code, 3) = 3 => ~taken
              /\ And32(code, 12) = 12 => ~taken
              /\ (code = 4 => (taken <=> ~Test(m_ctrl[G_FLAGS], CFLAG)))
              /\ (code = 8 => (taken <=> Test(m_ctrl[G_FLAGS], CFLAG)))
              /\ (code = 20 => (taken <=> ~Test(m_ctrl[G_FLAGS], NFLAG)))
              /\ (code = 24 => (taken <=> Test(m_ctrl[G_FLAGS], NFLAG)))]_vars

\* jr with code 20 (bit 4 and bit 2) was taken on flags with C set, N
\* clear and enable and DMA bits set
C38_Witness ==
    /\ op = "run_iteration"
    /\ run.iters = 1
    /\ run.taken = 1
    /\ WordAt(LoadBase(m_isdsp)) = Op(53, 1, 20)
    /\ m_ctrl[G_FLAGS] = CFLAG + EINT04FLAGS + DMAFLAG
=============================================================================
